---- MODULE Spec2Model ----
(***************************************************************************)
(* Generative-model gateway of the note-processing assistant: the          *)
(* non-streaming invoker with its backend retry loop, the streaming        *)
(* invoker and its event-line decoder, the audit fan-out and the roaming   *)
(* workflow.                                                               *)
(*                                                                         *)
(* Text is modelled as a sequence of one-character strings, so that the    *)
(* string operations of the source (trim, startsWith, includes, split,     *)
(* substring, JSON.parse) are computed and not assumed.  A fixed fragment  *)
(* of a message template (the localized prose between two substitutions)   *)
(* is one element of the sequence, written as an ASCII tag.                *)
(***************************************************************************)
EXTENDS Integers, Sequences, FiniteSets, TLC

VARIABLES
    \* ---- process-wide, read-only after start-up
    API_BASE_URL,        \* part_000:14-16
    protocol,            \* window.location.protocol
    frontendApiConfig,   \* part_000:113-148
    \* ---- one callGenerativeAi invocation (part_000:286-380)
    provider, executionMode,
    pc,                  \* position of the invocation
    i,                   \* the retry loop's counter
    attempts,            \* outcomes of the requests sent to the proxy, in order
    delays,              \* the setTimeout waits taken, in order
    directRequests,      \* requests sent straight to a provider (frontend mode)
    result,              \* the promise callGenerativeAi returns
    \* ---- one callGenerativeAiStream invocation (part_000:383-462, 210-284)
    path,                \* the branch taken: backend, gemini, openai, legacy
    sent,                \* the bytes of the response body, as the server sent them
    wire,                \* the part of the body not yet read
    nReads,              \* reads that returned bytes
    pending,             \* TextDecoder: bytes of an unfinished character
    buffer,              \* the decoder's partial line
    calls,               \* the callbacks invoked, in order
    \* ---- the audit view's handleAuditAll (part_000:1280-1313)
    auditPromises,       \* the promise of each provider's callGenerativeAi
    auditResults,        \* the published result map
    isLoading,
    \* ---- the notes view's handleStartRoaming (part_000:852-939)
    sources,             \* the snippets the knowledge base returned
    roamingCalls,        \* the promise of each snippet's callGenerativeAi
    roamingPromises,     \* the promise of each snippet's synthesis
    roamingOrder,        \* the snippets in the order their calls settled
    isRoaming, roamingResult, roamingError,
    \* ---- one application of the response parsers (part_000:1091-1213)
    rawText,             \* the text handed to the parsers
    typeArgument,        \* the T of parseJsonResponse<T>: the shape the caller expects
    jsonResult,          \* what parseJsonResponse returned for it
    audited,             \* what parseAuditResponse returned for it
    reparsed,            \* what parseJsonResponse returned for JSON.stringify of the data
    \* ---- one application of cleanEnv (part_000:8-12)
    envValue,            \* the environment's string
    cleaned,             \* cleanEnv of it
    recleaned            \* cleanEnv of that

envVars    == <<API_BASE_URL, protocol, frontendApiConfig>>
callVars   == <<provider, executionMode, pc>>
invokeVars == <<i, attempts, delays, directRequests, result>>
streamVars == <<path, sent, wire, nReads, pending, buffer, calls>>
auditVars  == <<auditPromises, auditResults, isLoading>>
roamVars   == <<sources, roamingCalls, roamingPromises, roamingOrder, isRoaming, roamingResult,
               roamingError>>
parseVars  == <<rawText, typeArgument, jsonResult, audited, reparsed>>
cleanVars  == <<envValue, cleaned, recleaned>>
pureVars   == <<parseVars, cleanVars>>
viewVars   == <<auditVars, roamVars, pureVars>>
vars == <<envVars, callVars, invokeVars, streamVars, viewVars>>

----------------------------------------------------------------------------
(* Strings *)

\* JavaScript's undefined, where a string may stand.
undefined == <<"undefined">>

Falsy(v) == v = undefined \/ v = <<>>

\* a || b on strings
OrElse(a, b) == IF Falsy(a) THEN b ELSE a

WhiteSpace == {" ", "\n", "\t", "\r"}

RECURSIVE TrimStart(_)
TrimStart(s) ==
    IF s # <<>> /\ Head(s) \in WhiteSpace THEN TrimStart(Tail(s)) ELSE s

RECURSIVE TrimEnd(_)
TrimEnd(s) ==
    IF s # <<>> /\ s[Len(s)] \in WhiteSpace
    THEN TrimEnd(SubSeq(s, 1, Len(s) - 1)) ELSE s

\* String.prototype.trim
Trim(s) == TrimEnd(TrimStart(s))

\* String.prototype.startsWith
StartsWith(s, p) == Len(s) >= Len(p) /\ SubSeq(s, 1, Len(p)) = p

\* String.prototype.indexOf, 1-based; 0 when absent
IndexOf(s, p) ==
    LET hits == {k \in 1..(Len(s) - Len(p) + 1) : SubSeq(s, k, k + Len(p) - 1) = p}
    IN IF hits = {} THEN 0 ELSE CHOOSE k \in hits : \A m \in hits : k <= m

\* String.prototype.includes
Includes(s, p) == IndexOf(s, p) # 0

UpperCase == <<"A", "B", "C", "D", "E", "F", "G", "H", "I", "J", "K", "L", "M",
               "N", "O", "P", "Q", "R", "S", "T", "U", "V", "W", "X", "Y", "Z">>
LowerCase == <<"a", "b", "c", "d", "e", "f", "g", "h", "i", "j", "k", "l", "m",
               "n", "o", "p", "q", "r", "s", "t", "u", "v", "w", "x", "y", "z">>
LowerOf(c) ==
    IF \E k \in 1..26 : UpperCase[k] = c
    THEN LowerCase[CHOOSE k \in 1..26 : UpperCase[k] = c]
    ELSE c

\* String.prototype.toLowerCase
ToLowerCase(s) == [k \in 1..Len(s) |-> LowerOf(s[k])]

DigitChar(d) == CASE d = 0 -> "0" [] d = 1 -> "1" [] d = 2 -> "2" [] d = 3 -> "3"
                  [] d = 4 -> "4" [] d = 5 -> "5" [] d = 6 -> "6" [] d = 7 -> "7"
                  [] d = 8 -> "8" [] d = 9 -> "9"

\* a non-negative number substituted into a template literal
RECURSIVE NumberToString(_)
NumberToString(n) ==
    IF n < 10 THEN <<DigitChar(n)>>
    ELSE NumberToString(n \div 10) \o <<DigitChar(n % 10)>>

----------------------------------------------------------------------------
(* JavaScript values and JSON.parse *)

\* A value is a record of one shape; t tells which field carries it.
JV(t, s, n, a, o) == [t |-> t, s |-> s, n |-> n, a |-> a, o |-> o]
JUndefined == JV("undefined", <<>>, 0, <<>>, <<>>)
JNull      == JV("null", <<>>, 0, <<>>, <<>>)
JStr(s)    == JV("string", s, 0, <<>>, <<>>)
JNum(n)    == JV("number", <<>>, n, <<>>, <<>>)
JBool(b)   == JV("boolean", <<>>, IF b THEN 1 ELSE 0, <<>>, <<>>)
JArr(a)    == JV("array", <<>>, 0, a, <<>>)
\* an object: its members in insertion order, each [k |-> key, v |-> value]
JObj(o)    == JV("object", <<>>, 0, <<>>, o)

\* if (v)
Truthy(v) ==
    CASE v.t \in {"undefined", "null"} -> FALSE
      [] v.t = "string"  -> v.s # <<>>
      [] v.t = "number"  -> v.n # 0
      [] v.t = "boolean" -> v.n = 1
      [] OTHER -> TRUE

\* typeof v === 'string', Array.isArray(v), typeof v === 'object' && v !== null
IsString(v) == v.t = "string"
IsArray(v)  == v.t = "array"
IsObject(v) == v.t \in {"object", "array"}

\* key in v, for an object that is not an array
HasKey(v, key) == v.t = "object" /\ \E k \in 1..Len(v.o) : v.o[k].k = key

\* v.key, for a value that is neither null nor undefined
Get(v, key) ==
    IF HasKey(v, key)
    THEN v.o[CHOOSE k \in 1..Len(v.o) : v.o[k].k = key].v
    ELSE JUndefined

\* v?.key
GetOpt(v, key) == IF v.t \in {"undefined", "null"} THEN JUndefined ELSE Get(v, key)

\* v?.[0]
FirstOpt(v) ==
    IF v.t = "array" /\ v.a # <<>> THEN v.a[1]
    ELSE IF v.t = "string" /\ v.s # <<>> THEN JStr(<<v.s[1]>>)
    ELSE JUndefined

\* a member set on an object under construction: a repeated key keeps its
\* place and takes the later value
SetMember(o, key, val) ==
    IF \E k \in 1..Len(o) : o[k].k = key
    THEN [k \in 1..Len(o) |-> IF o[k].k = key THEN [k |-> key, v |-> val] ELSE o[k]]
    ELSE Append(o, [k |-> key, v |-> val])

JsonWhiteSpace == {" ", "\n", "\t", "\r"}
Digits == {"0", "1", "2", "3", "4", "5", "6", "7", "8", "9"}
DigitValue(c) == CHOOSE d \in 0..9 : DigitChar(d) = c

RECURSIVE SkipWs(_, _)
SkipWs(s, p) ==
    IF p <= Len(s) /\ s[p] \in JsonWhiteSpace THEN SkipWs(s, p + 1) ELSE p

ParseFail == [ok |-> FALSE, v |-> JUndefined, p |-> 0]
ParseOk(v, p) == [ok |-> TRUE, v |-> v, p |-> p]

\* the characters of a string literal whose opening quote is before p
RECURSIVE ParseChars(_, _, _)
ParseChars(s, p, acc) ==
    IF p > Len(s) THEN ParseFail
    ELSE IF s[p] = "\"" THEN ParseOk(JStr(acc), p + 1)
    ELSE IF s[p] \in {"\n", "\t", "\r"} THEN ParseFail
    ELSE IF s[p] = "\\"
    THEN IF p + 1 > Len(s) THEN ParseFail
         ELSE IF s[p + 1] \in {"\"", "\\", "/"}
         THEN ParseChars(s, p + 2, Append(acc, s[p + 1]))
         ELSE IF s[p + 1] = "n" THEN ParseChars(s, p + 2, Append(acc, "\n"))
         ELSE IF s[p + 1] = "t" THEN ParseChars(s, p + 2, Append(acc, "\t"))
         ELSE IF s[p + 1] = "r" THEN ParseChars(s, p + 2, Append(acc, "\r"))
         ELSE ParseFail
    ELSE ParseChars(s, p + 1, Append(acc, s[p]))

RECURSIVE ParseDigits(_, _, _)
ParseDigits(s, p, acc) ==
    IF p <= Len(s) /\ s[p] \in Digits
    THEN ParseDigits(s, p + 1, 10 * acc + DigitValue(s[p]))
    ELSE ParseOk(JNum(acc), p)

\* an integer literal: -? (0 | [1-9][0-9]*)
ParseNumber(s, p) ==
    LET neg == s[p] = "-"
        q   == IF neg THEN p + 1 ELSE p
    IN IF q > Len(s) \/ s[q] \notin Digits THEN ParseFail
       ELSE IF s[q] = "0" /\ q + 1 <= Len(s) /\ s[q + 1] \in Digits THEN ParseFail
       ELSE LET r == ParseDigits(s, q, 0)
            IN ParseOk(JNum(IF neg THEN 0 - r.v.n ELSE r.v.n), r.p)

ParseLiteral(s, p, word, v) ==
    IF p + Len(word) - 1 <= Len(s) /\ SubSeq(s, p, p + Len(word) - 1) = word
    THEN ParseOk(v, p + Len(word)) ELSE ParseFail

RECURSIVE ParseValue(_, _)
RECURSIVE ParseElements(_, _, _)
RECURSIVE ParseMembers(_, _, _)

\* the elements of an array, a value expected at p
ParseElements(s, p, acc) ==
    LET r == ParseValue(s, p)
    IN IF ~r.ok THEN ParseFail
       ELSE LET q == SkipWs(s, r.p)
            IN IF q > Len(s) THEN ParseFail
               ELSE IF s[q] = "," THEN ParseElements(s, q + 1, Append(acc, r.v))
               ELSE IF s[q] = "]" THEN ParseOk(JArr(Append(acc, r.v)), q + 1)
               ELSE ParseFail

\* the members of an object, a key expected at p
ParseMembers(s, p, acc) ==
    LET k == SkipWs(s, p)
    IN IF k > Len(s) \/ s[k] # "\"" THEN ParseFail
       ELSE LET key == ParseChars(s, k + 1, <<>>)
            IN IF ~key.ok THEN ParseFail
               ELSE LET c == SkipWs(s, key.p)
                    IN IF c > Len(s) \/ s[c] # ":" THEN ParseFail
                       ELSE LET r == ParseValue(s, c + 1)
                            IN IF ~r.ok THEN ParseFail
                               ELSE LET q == SkipWs(s, r.p)
                                        o == SetMember(acc, key.v.s, r.v)
                                    IN IF q > Len(s) THEN ParseFail
                                       ELSE IF s[q] = "," THEN ParseMembers(s, q + 1, o)
                                       ELSE IF s[q] = "}" THEN ParseOk(JObj(o), q + 1)
                                       ELSE ParseFail

\* one JSON value, white space allowed before it
ParseValue(s, p0) ==
    LET p == SkipWs(s, p0)
    IN IF p > Len(s) THEN ParseFail
       ELSE IF s[p] = "[" THEN
            LET q == SkipWs(s, p + 1)
            IN IF q <= Len(s) /\ s[q] = "]" THEN ParseOk(JArr(<<>>), q + 1)
               ELSE ParseElements(s, q, <<>>)
       ELSE IF s[p] = "{" THEN
            LET q == SkipWs(s, p + 1)
            IN IF q <= Len(s) /\ s[q] = "}" THEN ParseOk(JObj(<<>>), q + 1)
               ELSE ParseMembers(s, q, <<>>)
       ELSE IF s[p] = "\"" THEN ParseChars(s, p + 1, <<>>)
       ELSE IF s[p] \in Digits \cup {"-"} THEN ParseNumber(s, p)
       ELSE IF s[p] = "t" THEN ParseLiteral(s, p, <<"t", "r", "u", "e">>, JBool(TRUE))
       ELSE IF s[p] = "f" THEN ParseLiteral(s, p, <<"f", "a", "l", "s", "e">>, JBool(FALSE))
       ELSE IF s[p] = "n" THEN ParseLiteral(s, p, <<"n", "u", "l", "l">>, JNull)
       ELSE ParseFail

\* JSON.parse(text): [ok |-> FALSE] stands for the SyntaxError thrown.  Numbers
\* are read as integers: the texts of this model carry no fraction or exponent.
JsonParse(text) ==
    LET r == ParseValue(text, 1)
    IN IF r.ok /\ SkipWs(text, r.p) > Len(text)
       THEN [ok |-> TRUE, v |-> r.v] ELSE [ok |-> FALSE, v |-> JUndefined]

----------------------------------------------------------------------------
(* Configuration *)

\* the quote characters the cleaner strips: the left and right smart quotes
\* are written LDQ and RDQ
LeadQuotes  == {"\"", "'", "LDQ"}
TrailQuotes == {"\"", "'", "RDQ"}

RECURSIVE StripLead(_)
StripLead(s) ==
    IF s # <<>> /\ Head(s) \in LeadQuotes THEN StripLead(Tail(s)) ELSE s

RECURSIVE StripTrail(_)
StripTrail(s) ==
    IF s # <<>> /\ s[Len(s)] \in TrailQuotes
    THEN StripTrail(SubSeq(s, 1, Len(s) - 1)) ELSE s

\* value.trim().replace(/^["'LDQ]+|["'RDQ]+$/g, '')
cleanEnv(value) ==
    IF Falsy(value) THEN undefined ELSE StripTrail(StripLead(Trim(value)))

ProxyApi == <<"/", "p", "r", "o", "x", "y", "-", "a", "p", "i">>
ApiSuffix == <<"/", "a", "p", "i">>

\* import.meta.env.PROD ? `${cleanEnv(VITE_API_BASE_URL) || ''}/api` : '/proxy-api'
ApiBaseUrl(prod, viteApiBaseUrl) ==
    IF prod THEN OrElse(cleanEnv(viteApiBaseUrl), <<>>) \o ApiSuffix ELSE ProxyApi

HttpHost  == <<"h", "t", "t", "p", ":", "/", "/", "h">>
HttpsHost == <<"h", "t", "t", "p", "s", ":", "/", "/", "h">>

\* the values VITE_API_BASE_URL is built with: unset, an insecure and a secure
\* origin, and a secure origin pasted with its quotes
EnvBaseUrls == {undefined, HttpHost, HttpsHost, <<"\"">> \o HttpsHost \o <<"\"">>}

ModelProviders == {"gemini", "openai", "deepseek", "ali", "depOCR", "doubao"}

\* a resolved configuration value: undefined, or the cleaned string
ConfigValues == {undefined, <<"v">>}

ProviderConfig(apiKey, endpoint, model) ==
    [apiKey |-> apiKey, endpoint |-> endpoint, model |-> model]

\* The table: gemini's model is a literal and it has no endpoint field; every
\* other provider takes all three fields from the environment.  The tables
\* drawn here give the providers other than gemini one common configuration:
\* a call reads the entry of its own provider only.
ConfigTables ==
    { [p \in ModelProviders |->
          IF p = "gemini" THEN ProviderConfig(g, undefined, <<"g", "2", "5">>)
          ELSE ProviderConfig(k, e, m)] :
      g \in ConfigValues, k \in ConfigValues, e \in ConfigValues, m \in ConfigValues }

----------------------------------------------------------------------------
(* Errors and their messages *)

JsError(name, message) == [name |-> name, message |-> message]

FailedToFetch == <<"F", "a", "i", "l", "e", "d", " ", "t", "o", " ", "f", "e", "t", "c", "h">>
LoadFailed    == <<"L", "o", "a", "d", " ", "f", "a", "i", "l", "e", "d">>
failedToFetchLower ==
    <<"f", "a", "i", "l", "e", "d", " ", "t", "o", " ", "f", "e", "t", "c", "h">>

HttpColon == <<"h", "t", "t", "p", ":">>

\* the fallback always the generic message with the URL
getBackendErrorMessageAlwaysUrl(error, url, proto) ==
    IF proto = "https:" /\ StartsWith(url, HttpColon)
    THEN <<"[mixed-content warning: HTTPS page cannot reach HTTP backend (">> \o url
            \o <<") ... remedies]">>
    ELSE IF error.name = "TypeError"
            /\ Includes(ToLowerCase(error.message), failedToFetchLower)
    THEN <<"[network request failed, cannot reach backend (">> \o url
            \o <<") ... causes]">>
    ELSE <<"[backend request error (">> \o url \o <<")">>

\* part_000:19-28
getBackendErrorMessage(error, url, proto) ==
    IF proto = "https:" /\ StartsWith(url, HttpColon)
    THEN <<"[mixed-content warning: HTTPS page cannot reach HTTP backend (">> \o url
            \o <<") ... remedies]">>
    ELSE IF error.name = "TypeError"
            /\ Includes(ToLowerCase(error.message), failedToFetchLower)
    THEN <<"[network request failed, cannot reach backend (">> \o url
            \o <<") ... causes]">>
    ELSE OrElse(error.message, <<"[backend request error (">> \o url \o <<")">>)

----------------------------------------------------------------------------
(* callGenerativeAi, part_000:286-380 *)

Pending          == [status |-> "pending",   value |-> <<>>, message |-> <<>>]
Fulfilled(value) == [status |-> "fulfilled", value |-> value, message |-> <<>>]
Rejected(msg)    == [status |-> "rejected",  value |-> <<>>, message |-> msg]

NotConfigured == " is not configured"

\* FrontendConfigError without the endpoint check
FrontendConfigErrorNoEndpoint(p, config) ==
    IF Falsy(config.model)
    THEN <<"Frontend Direct mode for ", p, NotConfigured, ": model is missing.">>
    ELSE IF Falsy(config.apiKey)
    THEN <<"Frontend Direct mode for ", p, NotConfigured, ". Please set the API key.">>
    ELSE <<>>

\* The checks of the frontend branch, in the order of the source
\* (part_000:297-336): the message thrown, or <<>> when the call goes on.
FrontendConfigError(p, config) ==
    IF Falsy(config.model)
    THEN <<"Frontend Direct mode for ", p, NotConfigured, ": model is missing.">>
    ELSE IF p = "gemini"
    THEN IF Falsy(config.apiKey)
         THEN <<"Frontend Direct mode for ", p, NotConfigured,
                ". Please set VITE_GEMINI_API_KEY in your environment.">>
         ELSE <<>>
    ELSE IF Falsy(config.apiKey)
    THEN <<"Frontend Direct mode for ", p, NotConfigured,
           ". Please set VITE_", p, "_API_KEY in your environment.">>
    ELSE IF Falsy(config.endpoint)
    THEN <<"Frontend Direct mode for ", p, NotConfigured,
           ". Please set the endpoint URL in your environment.">>
    ELSE <<>>

\* the loop bound off by one
retriesOffByOne == 2 + 1

\* const retries = 2; // 1 initial attempt + 2 retries
retries == 2

\* the wait between two attempts, in milliseconds (part_000:375)
RetryDelayMs == 1000

\* What one request to the proxy can come to: fetch rejects, the response is
\* not ok, or the response is ok and its body is read.
NoError == JsError("", <<>>)
Outcome(kind, status, text, error) ==
    [kind |-> kind, status |-> status, text |-> text, error |-> error]

ResponseTexts == {<<"[", "]">>, <<"o", "k">>}
ErrorStatuses == {404, 500, 503}
FetchErrors ==
    { JsError("TypeError", FailedToFetch),   \* Chromium's transport failure
      JsError("TypeError", LoadFailed),      \* WebKit's transport failure
      JsError("Error", <<>>) }               \* a rejection with an empty message

AttemptOutcomes ==
    { Outcome("ok", 200, t, NoError) : t \in ResponseTexts }
    \cup { Outcome("http", s, <<>>, NoError) : s \in ErrorStatuses }
    \cup { Outcome("reject", 0, <<>>, e) : e \in FetchErrors }

Failed(o) == o.kind # "ok"

\* part_000:361-364
userFriendlyError(status) ==
    <<"[backend proxy error (status: ">> \o NumberToString(status)
        \o <<"). check the backend logs.]">>
        \o (IF status >= 500 /\ status < 600
            THEN <<"[backend may be unable to reach the upstream AI service]">>
            ELSE <<>>)

\* BackendTry without the response.ok test: any response's body is returned
BackendTryNoOkCheck(o) ==
    IF o.kind = "reject" THEN [returned |-> FALSE, text |-> <<>>, error |-> o.error]
    ELSE [returned |-> TRUE, text |-> o.text, error |-> NoError]

\* The try block of one iteration (part_000:353-368): the text returned, or
\* the error thrown into the catch.
BackendTry(o) ==
    IF o.kind = "reject" THEN [returned |-> FALSE, text |-> <<>>, error |-> o.error]
    ELSE IF o.kind # "ok"      \* !response.ok
    THEN [returned |-> FALSE, text |-> <<>>,
          error |-> JsError("Error", userFriendlyError(o.status))]
    ELSE [returned |-> TRUE, text |-> o.text, error |-> NoError]

\* BackendCatch rethrowing the raw message, unclassified
BackendCatchRaw(n, error, url, proto) ==
    IF n = retries
    THEN [next |-> "throw", message |-> error.message]
    ELSE [next |-> "delay", message |-> <<>>]

\* The catch block of one iteration (part_000:370-376).
BackendCatch(n, error, url, proto) ==
    IF n = retries
    THEN [next |-> "throw", message |-> getBackendErrorMessage(error, url, proto)]
    ELSE [next |-> "delay", message |-> <<>>]

\* What a direct call to a provider comes to (part_000:321-329, 150-208): the
\* text, an absent text (response.text undefined, message.content null), or
\* a rejection that is passed on as it is.
DirectOutcomes ==
    { Fulfilled(t) : t \in ResponseTexts } \cup { Fulfilled(undefined) }
    \cup { Rejected(FailedToFetch), Rejected(<<"API Error: ", "5", "0", "0">>) }

InitEnv ==
    /\ API_BASE_URL \in { ApiBaseUrl(prod, u) : prod \in BOOLEAN, u \in EnvBaseUrls }
    /\ protocol \in {"http:", "https:"}
    /\ frontendApiConfig \in ConfigTables

CallIdle == provider = "none" /\ executionMode = "none" /\ pc = "idle"

InvokeIdle ==
    /\ i = 0
    /\ attempts = <<>> /\ delays = <<>> /\ directRequests = 0
    /\ result = Pending

StreamIdle ==
    /\ path = "none" /\ sent = <<>> /\ wire = <<>> /\ nReads = 0
    /\ pending = <<>> /\ buffer = <<>> /\ calls = <<>>

\* useState({}), useState(false)
AuditIdle == auditPromises = <<>> /\ auditResults = <<>> /\ isLoading = FALSE

\* useState(false), useState(null), useState(null)
RoamIdle ==
    /\ sources = <<>> /\ roamingCalls = <<>> /\ roamingPromises = <<>> /\ roamingOrder = <<>>
    /\ isRoaming = FALSE /\ roamingResult = JNull /\ roamingError = JNull

\* nothing parsed, nothing cleaned
NoResult == [threw |-> FALSE, none |-> TRUE]
ParseIdle == rawText = <<>> /\ typeArgument = "none" /\ jsonResult = NoResult /\ audited = NoResult /\ reparsed = NoResult
CleanIdle == envValue = <<>> /\ cleaned = <<>> /\ recleaned = <<>>

ViewIdle == AuditIdle /\ RoamIdle /\ ParseIdle /\ CleanIdle

\* callGenerativeAi(provider, executionMode, ...) up to its first await
Invoke(p, mode) ==
    /\ pc = "idle"
    /\ provider' = p /\ executionMode' = mode
    /\ IF mode = "frontend"
       THEN LET err == FrontendConfigError(p, frontendApiConfig[p])
            IN IF err # <<>>
               THEN pc' = "done" /\ result' = Rejected(err)
                    /\ directRequests' = directRequests
               ELSE pc' = "direct" /\ result' = result
                    /\ directRequests' = directRequests + 1
       ELSE pc' = "attempt" /\ UNCHANGED <<result, directRequests>>
    /\ i' = 0
    /\ UNCHANGED <<attempts, delays, envVars, streamVars, viewVars>>

\* the direct request settles
DirectSettles(o) ==
    /\ pc = "direct"
    /\ result' = o /\ pc' = "done"
    /\ UNCHANGED <<provider, executionMode, i, attempts, delays, directRequests, envVars, streamVars, viewVars>>

\* one iteration of the retry loop, from fetch to return, throw or setTimeout
BackendAttempt(o) ==
    /\ pc = "attempt"
    /\ attempts' = Append(attempts, o)
    /\ LET t == BackendTry(o)
       IN IF t.returned
          THEN result' = Fulfilled(t.text) /\ pc' = "done" /\ delays' = delays
          ELSE LET c == BackendCatch(i, t.error, API_BASE_URL, protocol)
               IN IF c.next = "throw"
                  THEN result' = Rejected(c.message) /\ pc' = "done" /\ delays' = delays
                  ELSE result' = result /\ pc' = "delay"
                       /\ delays' = Append(delays, [after |-> Len(attempts'), ms |-> RetryDelayMs])
    /\ UNCHANGED <<provider, executionMode, i, directRequests, envVars, streamVars, viewVars>>

\* the timer fires: i++ and the loop's test
DelayElapsed ==
    /\ pc = "delay"
    /\ i' = i + 1
    /\ IF i + 1 <= retries
       THEN pc' = "attempt" /\ result' = result
       ELSE pc' = "done" /\ result' = Rejected(<<"All retry attempts failed.">>)
    /\ UNCHANGED <<provider, executionMode, attempts, delays, directRequests, envVars, streamVars, viewVars>>

InitInvoke == InitEnv /\ CallIdle /\ InvokeIdle /\ StreamIdle /\ ViewIdle

NextInvoke ==
    \/ \E p \in ModelProviders, mode \in {"backend", "frontend"} : Invoke(p, mode)
    \/ \E o \in DirectOutcomes : DirectSettles(o)
    \/ \E o \in AttemptOutcomes : BackendAttempt(o)
    \/ DelayElapsed

SpecInvoke == InitInvoke /\ [][NextInvoke]_vars

----------------------------------------------------------------------------
(* callGenerativeAiStream, part_000:383-462; callOpenAiCompatibleApiStream, *)
(* part_000:210-284; the earlier callGenerativeAiStream, part_001:127-178   *)

\* A callback invoked with its argument.
Call(cb, arg) == [cb |-> cb, arg |-> arg]
OnChunk(v)    == Call("onChunk", v)
OnComplete    == Call("onComplete", JUndefined)
OnError(msg)  == Call("onError", JStr(msg))

\* The body is a sequence of bytes.  An ASCII character is its own byte; one
\* two-byte character is modelled, e-acute, with the bytes xC3 xA9.
LeadByte == "xC3"
ContByte == "xA9"
EAcute   == "e-acute"
Replacement == "U+FFFD"

Skipped(c) == c = ""
Kept(c) == ~Skipped(c)

\* TextDecoder.decode(value, { stream: true }): the text decoded from the
\* pending bytes and the bytes of one read, and the bytes left pending.  A
\* lead byte at the end waits for the next read; a lead byte without its
\* continuation and a continuation without its lead decode to U+FFFD.
Decode(pend, bytes) ==
    LET all == pend \o bytes
        n == Len(all)
        out == [k \in 1..n |->
                  IF all[k] = LeadByte
                  THEN IF k = n THEN ""
                       ELSE IF all[k + 1] = ContByte THEN EAcute ELSE Replacement
                  ELSE IF all[k] = ContByte
                  THEN IF k > 1 /\ all[k - 1] = LeadByte THEN "" ELSE Replacement
                  ELSE all[k]]
    IN [text |-> SelectSeq(out, Kept),
        pending |-> IF n > 0 /\ all[n] = LeadByte THEN <<LeadByte>> ELSE <<>>]

\* String.prototype.split('\n')
SplitLines(s) ==
    LET nl == {k \in 1..Len(s) : s[k] = "\n"}
        \* the position of the j-th newline; 0 and Len(s) + 1 bound the text
        At(j) == IF j = 0 THEN 0
                 ELSE IF j > Cardinality(nl) THEN Len(s) + 1
                 ELSE CHOOSE k \in nl : Cardinality({m \in nl : m <= k}) = j
    IN [j \in 1..(Cardinality(nl) + 1) |-> SubSeq(s, At(j - 1) + 1, At(j) - 1)]

DataPrefix   == <<"d", "a", "t", "a", ":", " ">>
DoneSentinel == <<"[", "D", "O", "N", "E", "]">>
KeyChoices == <<"c", "h", "o", "i", "c", "e", "s">>
KeyDelta   == <<"d", "e", "l", "t", "a">>
KeyContent == <<"c", "o", "n", "t", "e", "n", "t">>

\* v?.[0] on any value: a property named 0 of an object counts
IndexZeroOpt(v) == IF v.t = "object" THEN Get(v, <<"0">>) ELSE FirstOpt(v)

\* the line's handling without the return after onComplete
ProcessLineNoReturn(line) ==
    IF StartsWith(Trim(line), DataPrefix) /\ Trim(SubSeq(line, 7, Len(line))) = DoneSentinel
    THEN [calls |-> <<OnComplete>>, returned |-> FALSE]
    ELSE [calls |-> <<>>, returned |-> FALSE]

\* One line of the loop over lines (part_000:262-277): the callbacks it
\* invokes, and whether the function returns at it.
ProcessLine(line) ==
    IF StartsWith(Trim(line), DataPrefix)
    THEN LET dataStr == Trim(SubSeq(line, 7, Len(line)))     \* line.substring(6).trim()
         IN IF dataStr = DoneSentinel
            THEN [calls |-> <<OnComplete>>, returned |-> TRUE]
            ELSE LET data == JsonParse(dataStr)
                 IN IF ~data.ok \/ data.v.t = "null"         \* SyntaxError, TypeError: caught, logged
                    THEN [calls |-> <<>>, returned |-> FALSE]
                    ELSE LET content ==
                                 GetOpt(GetOpt(IndexZeroOpt(Get(data.v, KeyChoices)),
                                               KeyDelta), KeyContent)
                         IN IF Truthy(content)
                            THEN [calls |-> <<OnChunk(content)>>, returned |-> FALSE]
                            ELSE [calls |-> <<>>, returned |-> FALSE]
    ELSE [calls |-> <<>>, returned |-> FALSE]

\* the callbacks of the lines 1..last, in the order of the lines
RECURSIVE CallsUpTo(_, _)
CallsUpTo(rs, last) ==
    IF last = 0 THEN <<>> ELSE CallsUpTo(rs, last - 1) \o rs[last].calls

\* the loop run over every line, the return of a line not ending it
LoopOverEveryLine(rs) ==
    [calls |-> CallsUpTo(rs, Len(rs)), returned |-> \E k \in 1..Len(rs) : rs[k].returned]

\* for (const line of lines) over the lines' handlings rs: the loop stops at
\* the first line that returns
LoopOver(rs) ==
    LET returns == {k \in 1..Len(rs) : rs[k].returned}
        last == IF returns = {} THEN Len(rs)
                ELSE CHOOSE k \in returns : \A m \in returns : k <= m
    IN [calls |-> CallsUpTo(rs, last), returned |-> returns # {}]

ProcessLines(lines) == LoopOver([k \in 1..Len(lines) |-> ProcessLine(lines[k])])

\* the loop run over every piece of the split, the last one included
PopAndLoopLastToo(lines) == [buffer |-> <<>>] @@ ProcessLines(lines)

\* lines.pop() || '' taken as the new buffer, the loop run over the rest
PopAndLoop(lines) ==
    [buffer |-> lines[Len(lines)]] @@ ProcessLines(SubSeq(lines, 1, Len(lines) - 1))

\* the read's handling with the partial line dropped instead of kept
ProcessReadNoBuffer(buf, text) == [buffer |-> <<>>] @@ PopAndLoop(SplitLines(text))

\* The body of the read loop after a read that returned bytes (part_000:257-278).
ProcessRead(buf, text) == PopAndLoop(SplitLines(buf \o text))

\* the raw read's forwarding with the decoded text dropped
ForwardReadNothing(text) == <<>>

\* The body of the raw read loop (part_000:455, part_001:166-167).
ForwardRead(text) == <<OnChunk(JStr(text))>>

\* data: {"choices":[{"delta":{"content":"<c>"}}]}
EventLine(c) ==
    DataPrefix
    \o <<"{", "\"">> \o KeyChoices \o <<"\"", ":", "[", "{", "\"">> \o KeyDelta
    \o <<"\"", ":", "{", "\"">> \o KeyContent \o <<"\"", ":", "\"">> \o c
    \o <<"\"", "}", "}", "]", "}">>
DoneLine == DataPrefix \o DoneSentinel
NL == <<"\n">>

\* the bodies a server sends
RawBody == <<"H", "i", " ", LeadByte, ContByte, "\n", "!">>
\* two events, the second with a two-byte character, a blank line between
\* them, the sentinel, and an event after the sentinel
EventBody ==
    EventLine(<<"a">>) \o NL \o NL \o EventLine(<<LeadByte, ContByte>>) \o <<"\r", "\n">>
    \o DoneLine \o NL \o EventLine(<<"z">>) \o NL
\* an event that is no JSON, an event, and a last event that never gets its
\* newline; no sentinel
OpenEndedBody ==
    DataPrefix \o <<"{", "b", "a", "d">> \o NL \o EventLine(<<"a">>) \o NL \o EventLine(<<"b">>)
\* one event and the sentinel
ShortEventBody == EventLine(<<"a">>) \o NL \o DoneLine \o NL

\* the increments the gemini SDK's stream yields: chunk.text of each
GeminiStreams == { <<JStr(<<"a">>), JUndefined, JStr(<<"b">>)>>, <<>> }

\* the most reads a body is delivered in
MaxReads == 2

Bodies(pth) ==
    IF pth = "openai" THEN {EventBody, OpenEndedBody, RawBody}
    ELSE IF pth = "gemini" THEN GeminiStreams
    ELSE {RawBody, ShortEventBody}

\* How the request of a streaming call is answered: fetch rejects, the
\* response is not ok (its error text read, or not readable), the response
\* has no body, or the body starts to arrive.
StreamAnswers(pth) ==
    { [kind |-> "reject", status |-> 0, body |-> <<>>, error |-> e] : e \in FetchErrors }
    \cup { [kind |-> k, status |-> 500, body |-> <<>>, error |-> NoError] :
             k \in {"http", "http-unreadable", "nobody"} }
    \cup { [kind |-> "ok", status |-> 200, body |-> b, error |-> NoError] : b \in Bodies(pth) }

ErrorText == <<"u", "p", "s", "t", "r", "e", "a", "m">>
StatusText(a) == <<"Status: ">> \o NumberToString(a.status)

\* The error a failed answer raises in the branch pth.
AnswerError(pth, a) ==
    IF a.kind = "reject" THEN a.error
    ELSE IF pth = "legacy"
    THEN IF a.kind = "nobody" THEN JsError("Error", <<"Response body is null">>)
         ELSE JsError("Error", <<"[backend API error: ">> \o
                (IF a.kind = "http" THEN ErrorText ELSE <<"Internal Server Error">>))
    ELSE IF pth = "gemini" THEN JsError("Error", <<"[SDK error ">> \o NumberToString(a.status))
    ELSE JsError("Error",
            (IF pth = "openai" THEN <<"Streaming Error: ">> ELSE <<"[backend streaming error: ">>)
            \o (IF a.kind = "http" THEN ErrorText
                ELSE IF a.kind = "nobody" THEN <<>> ELSE StatusText(a)))

\* the outer catch passing the error's message on, unclassified
CatchCallUnclassified(pth, error, url, proto) ==
    IF pth = "legacy"
    THEN IF error.name = "TypeError"
            /\ Includes(ToLowerCase(error.message), failedToFetchLower)
         THEN OnError(<<"[network request failed, cannot reach your backend (">> \o url
                        \o <<"). make sure it is running]">>)
         ELSE OnError(error.message)
    ELSE Call("onError", JStr(error.message))

\* The terminal callback of the branch pth for a caught error: the outer
\* catch of part_000:459-461, the inner catch of part_000:281-283, the catch
\* of part_001:171-177.
CatchCall(pth, error, url, proto) ==
    IF pth = "openai" THEN Call("onError", JStr(error.message))
    ELSE IF pth = "legacy"
    THEN IF error.name = "TypeError"
            /\ Includes(ToLowerCase(error.message), failedToFetchLower)
         THEN OnError(<<"[network request failed, cannot reach your backend (">> \o url
                        \o <<"). make sure it is running]">>)
         ELSE OnError(error.message)
    ELSE OnError(getBackendErrorMessage(error, url, proto))

\* the configurations a streaming call is made under: complete, and lacking
\* gemini's key, the others' key, the others' endpoint, the others' model
StreamConfigTables ==
    { t \in ConfigTables :
        Cardinality({ f \in {"apiKey", "endpoint", "model"} : Falsy(t["openai"][f]) })
          + (IF Falsy(t["gemini"].apiKey) THEN 1 ELSE 0) <= 1 }

\* the providers a streaming call is made for: the frontend mode branches on
\* gemini against the rest; the other modes only forward the name
StreamProviders(mode) ==
    IF mode = "frontend" THEN {"gemini", "openai", "doubao"} ELSE {"gemini"}

InitStream ==
    /\ API_BASE_URL \in {ProxyApi, HttpHost \o ApiSuffix}
    /\ protocol \in {"http:", "https:"}
    /\ frontendApiConfig \in StreamConfigTables
    /\ CallIdle /\ InvokeIdle /\ StreamIdle /\ ViewIdle

\* callGenerativeAiStream(provider, executionMode, ...) up to its first await;
\* mode "legacy" is the call of part_001's function, which has no mode.
StreamInvoke(p, mode) ==
    /\ pc = "idle"
    /\ provider' = p /\ executionMode' = mode
    /\ IF mode = "frontend"
       THEN LET err == FrontendConfigError(p, frontendApiConfig[p])
                pth == IF p = "gemini" THEN "gemini" ELSE "openai"
            IN IF err # <<>>
               THEN /\ path' = pth /\ pc' = "done"
                    /\ calls' = <<CatchCall("outer", JsError("Error", err), API_BASE_URL, protocol)>>
               ELSE path' = pth /\ pc' = "fetch" /\ calls' = calls
       ELSE path' = mode /\ pc' = "fetch" /\ calls' = calls
    /\ UNCHANGED <<sent, wire, nReads, pending, buffer, envVars, invokeVars, viewVars>>

\* the request is answered
StreamAnswer(a) ==
    /\ pc = "fetch"
    /\ IF a.kind = "ok"
       THEN sent' = a.body /\ wire' = a.body /\ pc' = "reading" /\ calls' = calls
       ELSE /\ calls' = Append(calls, CatchCall(path, AnswerError(path, a), API_BASE_URL, protocol))
            /\ pc' = "done" /\ UNCHANGED <<sent, wire>>
    /\ UNCHANGED <<provider, executionMode, path, nReads, pending, buffer, envVars, invokeVars, viewVars>>

\* reader.read() returns the next n bytes
StreamRead(n) ==
    /\ pc = "reading" /\ path # "gemini"
    /\ n \in 1..Len(wire)
    /\ nReads + 1 < MaxReads \/ n = Len(wire)
    /\ \E d \in {Decode(pending, SubSeq(wire, 1, n))} :
          /\ pending' = d.pending
          /\ IF path = "openai"
             THEN \E r \in {ProcessRead(buffer, d.text)} :
                     /\ buffer' = r.buffer
                     /\ calls' = calls \o r.calls
                     /\ pc' = IF r.returned THEN "done" ELSE "reading"
             ELSE buffer' = buffer /\ calls' = calls \o ForwardRead(d.text) /\ pc' = "reading"
    /\ wire' = SubSeq(wire, n + 1, Len(wire))
    /\ nReads' = nReads + 1
    /\ UNCHANGED <<provider, executionMode, path, sent, envVars, invokeVars, viewVars>>

\* for await (const chunk of streamResult) onChunk(chunk.text)
GeminiNext ==
    /\ pc = "reading" /\ path = "gemini" /\ wire # <<>>
    /\ calls' = Append(calls, OnChunk(Head(wire)))
    /\ wire' = Tail(wire)
    /\ nReads' = nReads + 1
    /\ UNCHANGED <<provider, executionMode, pc, path, sent, pending, buffer, envVars, invokeVars, viewVars>>

\* the body ends: reader.read() returns done, the loop breaks, onComplete()
StreamEnd ==
    /\ pc = "reading" /\ wire = <<>>
    /\ calls' = Append(calls, OnComplete)
    /\ pc' = "done"
    /\ UNCHANGED <<provider, executionMode, path, sent, wire, nReads, pending, buffer,
                   envVars, invokeVars, viewVars>>

\* the connection drops: reader.read() (or the SDK's iterator) rejects
StreamReadFails(e) ==
    /\ pc = "reading"
    /\ calls' = Append(calls, CatchCall(path, e, API_BASE_URL, protocol))
    /\ pc' = "done"
    /\ UNCHANGED <<provider, executionMode, path, sent, wire, nReads, pending, buffer,
                   envVars, invokeVars, viewVars>>

NextStream ==
    \/ \E mode \in {"backend", "frontend", "legacy"} :
          \E p \in StreamProviders(mode) : StreamInvoke(p, mode)
    \/ \E a \in StreamAnswers(path) : StreamAnswer(a)
    \/ \E n \in 1..Len(wire) : StreamRead(n)
    \/ GeminiNext
    \/ StreamEnd
    \/ StreamReadFails(JsError("TypeError", <<"n", "e", "t", "w", "o", "r", "k", " ", "e", "r", "r", "o", "r">>))

SpecStream == InitStream /\ [][NextStream]_vars

----------------------------------------------------------------------------
(* parseJsonResponse and parseAuditResponse, part_000:1091-1213 *)

\* String.prototype.lastIndexOf, 1-based; 0 when absent
LastIndexOf(s, p) ==
    LET hits == {k \in 1..(Len(s) - Len(p) + 1) : SubSeq(s, k, k + Len(p) - 1) = p}
    IN IF hits = {} THEN 0 ELSE CHOOSE k \in hits : \A m \in hits : k >= m

\* the first position from k on that holds no white space; Len(s) + 1 if none
NextNonWs(s, k) ==
    CHOOSE j \in k..(Len(s) + 1) :
        /\ j = Len(s) + 1 \/ s[j] \notin WhiteSpace
        /\ \A m \in k..(j - 1) : s[m] \in WhiteSpace

\* str.replace(/,\s*([}\]])/g, '$1'): a comma and the white space after it go
\* when a closing brace or bracket follows
FixedStr(str) ==
    LET n == Len(str)
        Closes(j) == LET e == NextNonWs(str, j + 1)
                     IN e <= n /\ str[e] \in {"}", "]"}
        Removed(j) == /\ Closes(j)
                      /\ \E k \in 1..j : /\ str[k] = ","
                                         /\ \A m \in (k + 1)..j : str[m] \in WhiteSpace
        out == [j \in 1..n |-> IF Removed(j) THEN "" ELSE str[j]]
    IN SelectSeq(out, Kept)

\* the value of a parse, or alt when it threw
OkOr(r, alt) == IF r.ok THEN r.v ELSE alt

\* tryParse (part_000:1095-1108): the text with its trailing commas removed is
\* parsed first, the text as it is only when that throws
tryParse(str) == OkOr(JsonParse(FixedStr(str)), OkOr(JsonParse(str), JNull))

\* a backquote is written BQ
Fence == <<"BQ", "BQ", "BQ">>
FenceAt(s, q) == q + 2 <= Len(s) /\ SubSeq(s, q, q + 2) = Fence

\* jsonString.match(/```(?:json)?\s*([\s\S]*?)\s*```/): whether it matches, and
\* its group 1
MarkdownMatch(s) ==
    LET a == IndexOf(s, Fence)
        afterJson == IF a + 6 <= Len(s) /\ SubSeq(s, a + 3, a + 6) = <<"j", "s", "o", "n">>
                     THEN a + 7 ELSE a + 3
        p == NextNonWs(s, afterJson)
        ends == {e \in p..Len(s) : FenceAt(s, NextNonWs(s, e))}
    IN IF a = 0 \/ ends = {} THEN [found |-> FALSE, group |-> <<>>]
       ELSE [found |-> TRUE,
             group |-> SubSeq(s, p, (CHOOSE e \in ends : \A m \in ends : e <= m) - 1)]

\* part_000:1112-1117
FromMarkdown(parsedData, m) ==
    IF ~Truthy(parsedData) /\ m.found /\ m.group # <<>>
    THEN tryParse(Trim(m.group)) ELSE parsedData

\* the braces' span preferred to the brackets'
EnclosedSpanBracesFirst(s) ==
    IF IndexOf(s, <<"{">>) # 0 /\ LastIndexOf(s, <<"}">>) > IndexOf(s, <<"{">>)
    THEN [start |-> IndexOf(s, <<"{">>), end |-> LastIndexOf(s, <<"}">>)]
    ELSE IF IndexOf(s, <<"[">>) # 0 /\ LastIndexOf(s, <<"]">>) > IndexOf(s, <<"[">>)
    THEN [start |-> IndexOf(s, <<"[">>), end |-> LastIndexOf(s, <<"]">>)]
    ELSE [start |-> 0, end |-> 0]

\* the span the brackets, else the braces, enclose (part_000:1120-1133);
\* start = 0 when there is none
Span(first, last) == [start |-> first, end |-> last]
EnclosedSpan(s) ==
    IF IndexOf(s, <<"[">>) # 0 /\ LastIndexOf(s, <<"]">>) > IndexOf(s, <<"[">>)
    THEN Span(IndexOf(s, <<"[">>), LastIndexOf(s, <<"]">>))
    ELSE IF IndexOf(s, <<"{">>) # 0 /\ LastIndexOf(s, <<"}">>) > IndexOf(s, <<"{">>)
    THEN Span(IndexOf(s, <<"{">>), LastIndexOf(s, <<"}">>))
    ELSE Span(0, 0)

\* part_000:1119-1138
FromSpan(parsedData, s, sp) ==
    IF ~Truthy(parsedData) /\ sp.start # 0
    THEN tryParse(SubSeq(s, sp.start, sp.end)) ELSE parsedData

NoIssuesFound == <<"n", "o", " ", "i", "s", "s", "u", "e", "s", " ", "f", "o", "u", "n", "d">>
Sentinels == { NoIssuesFound,
               <<"U6CA1", "U6709", "U53D1", "U73B0">>,
               <<"U672A", "U53D1", "U73B0">> }
NotValidJson == <<"[could not parse the model response as valid JSON]">>

Parsed(data, error, rawResponse) ==
    [threw |-> FALSE, data |-> data, error |-> error, rawResponse |-> rawResponse]
\* the TypeError of responseText.trim() on a value that is no string
ParseThrew == [threw |-> TRUE, data |-> JNull, error |-> undefined, rawResponse |-> undefined]

\* the sentinel looked for in the text as it is
ConcludeCaseSensitive(parsedData, responseText) ==
    IF parsedData.t = "null"
    THEN IF \E w \in Sentinels : Includes(responseText, w)
         THEN Parsed(JArr(<<>>), undefined, undefined)
         ELSE Parsed(JNull, NotValidJson, responseText)
    ELSE Parsed(parsedData, undefined, undefined)

\* part_000:1140-1151; Array.isArray([] as T) is true whatever T is
Conclude(parsedData, responseText) ==
    IF parsedData.t = "null"
    THEN IF \E w \in Sentinels : Includes(ToLowerCase(responseText), w)
         THEN Parsed(JArr(<<>>), undefined, undefined)
         ELSE Parsed(JNull, NotValidJson, responseText)
    ELSE Parsed(parsedData, undefined, undefined)

\* the failure carrying the trimmed text
parseJsonResponseTrimmedRaw(responseText) ==
    IF responseText = undefined THEN ParseThrew
    ELSE Conclude(FromSpan(FromMarkdown(tryParse(Trim(responseText)),
                                        MarkdownMatch(Trim(responseText))),
                           Trim(responseText), EnclosedSpan(Trim(responseText))),
                  Trim(responseText))

parseJsonResponse(responseText) ==
    IF responseText = undefined THEN ParseThrew
    ELSE Conclude(FromSpan(FromMarkdown(tryParse(Trim(responseText)),
                                        MarkdownMatch(Trim(responseText))),
                           Trim(responseText), EnclosedSpan(Trim(responseText))),
                  responseText)

KeyIssues          == <<"i", "s", "s", "u", "e", "s">>
KeyProblematicText == <<"p", "r", "o", "b", "l", "e", "m", "a", "t", "i", "c", "T", "e", "x", "t">>
KeySuggestion      == <<"s", "u", "g", "g", "e", "s", "t", "i", "o", "n">>
KeyChecklistItem   == <<"c", "h", "e", "c", "k", "l", "i", "s", "t", "I", "t", "e", "m">>
KeyExplanation     == <<"e", "x", "p", "l", "a", "n", "a", "t", "i", "o", "n">>
KeyReason          == <<"r", "e", "a", "s", "o", "n">>

Unspecified   == JStr(<<"[unspecified text]">>)
GeneralRule   == JStr(<<"[general rule]">>)
NoExplanation == JStr(<<"[no explanation]">>)
UnexpectedFormat == <<"[the model returned an unexpected JSON format]">>

\* typeof v === 'string' ? v : alt
StringOr(v, alt) == IF IsString(v) THEN v ELSE alt
\* a || b on values
ValueOr(a, b) == IF Truthy(a) THEN a ELSE b

AuditIssue(problematicText, suggestion, checklistItem, explanation) ==
    [problematicText |-> problematicText, suggestion |-> suggestion,
     checklistItem |-> checklistItem, explanation |-> explanation]

\* the issue built from an element of the array (part_000:1193-1198, 1203-1208)
Salvaged(issue, problematicText) ==
    AuditIssue(problematicText,
               StringOr(Get(issue, KeySuggestion), JStr(<<>>)),
               StringOr(Get(issue, KeyChecklistItem), GeneralRule),
               StringOr(Get(issue, KeyExplanation),
                        StringOr(Get(issue, KeyReason), NoExplanation)))

Dropped == [keep |-> FALSE, issue |-> AuditIssue(JNull, JNull, JNull, JNull)]
KeptIssue(issue) == [keep |-> TRUE, issue |-> issue]

\* the callback of issuesArray.map (part_000:1186-1209); keep = FALSE is null
ValidIssue(issue) ==
    IF ~Truthy(issue) \/ ~IsObject(issue) THEN Dropped
    ELSE IF ~Truthy(Get(issue, KeyProblematicText)) \/ ~IsString(Get(issue, KeyProblematicText))
    THEN IF \/ Truthy(Get(issue, KeySuggestion)) /\ IsString(Get(issue, KeySuggestion))
            \/ Truthy(Get(issue, KeyExplanation)) /\ IsString(Get(issue, KeyExplanation))
         THEN KeptIssue(Salvaged(issue, ValueOr(Get(issue, KeyProblematicText), Unspecified)))
         ELSE Dropped
    ELSE KeptIssue(Salvaged(issue, Get(issue, KeyProblematicText)))

IsKept(m) == m.keep

\* an array with an entry to drop gives no issue at all
ValidIssuesAllOrNone(issuesArray) ==
    IF \E k \in 1..Len(issuesArray) : ~ValidIssue(issuesArray[k]).keep THEN <<>>
    ELSE [k \in 1..Len(issuesArray) |-> ValidIssue(issuesArray[k]).issue]

\* issuesArray.map(...).filter(issue => issue !== null)
ValidIssues(issuesArray) ==
    LET kept == SelectSeq([k \in 1..Len(issuesArray) |-> ValidIssue(issuesArray[k])], IsKept)
    IN [k \in 1..Len(kept) |-> kept[k].issue]

AuditParsed(issues, error, rawResponse) ==
    [threw |-> FALSE, issues |-> issues, error |-> error, rawResponse |-> rawResponse]
\* the TypeError of parseJsonResponse, passed on
AuditThrew == [threw |-> TRUE, issues |-> <<>>, error |-> undefined, rawResponse |-> undefined]

\* parseAuditResponse from the result r of parseJsonResponse on
\* (part_000:1160-1212)
FromParsed(r, responseText) ==
    IF r.threw THEN AuditThrew
    ELSE IF ~Truthy(r.data) THEN AuditParsed(<<>>, r.error, r.rawResponse)
    ELSE IF IsArray(r.data) THEN AuditParsed(ValidIssues(r.data.a), undefined, undefined)
    ELSE IF HasKey(r.data, KeyIssues) /\ IsArray(Get(r.data, KeyIssues))
    THEN AuditParsed(ValidIssues(Get(r.data, KeyIssues).a), undefined, undefined)
    ELSE IF HasKey(r.data, KeyProblematicText) /\ HasKey(r.data, KeySuggestion)
    THEN AuditParsed(ValidIssues(<<r.data>>), undefined, undefined)
    ELSE AuditParsed(<<>>, UnexpectedFormat, responseText)

parseAuditResponse(responseText) == FromParsed(parseJsonResponse(responseText), responseText)

----------------------------------------------------------------------------
(* handleAuditAll, part_000:1280-1313 *)

allModels == <<"gemini", "openai", "deepseek", "ali", "depOCR", "doubao">>

\* the texts a model answers an audit with: one issue as the prompt asks for
\* it, and prose that holds no JSON
IssueText == <<"[", "{", "\"", "p", "r", "o", "b", "l", "e", "m", "a", "t", "i", "c", "T", "e", "x", "t", "\"", ":", "\"", "x", "\"", ",", "\"", "s", "u", "g", "g", "e", "s", "t", "i", "o", "n", "\"", ":", "\"", "y", "\"", "}", "]">>
ProseText == <<"S", "o", "r", "r", "y", ".">>
AuditTexts == {IssueText, ProseText}

ApiError == <<"API Error: ", "5", "0", "0">>

\* What a call of callGenerativeAi settles with.  Frontend mode: a missing
\* setting rejects; else the provider's text, an absent text (response.text
\* undefined, message.content null) or the provider's error.  Backend mode:
\* the proxy's text, or the message of the last attempt's error.
CallSettlements(p, mode, texts) ==
    IF mode = "frontend"
    THEN IF FrontendConfigError(p, frontendApiConfig[p]) # <<>>
         THEN { Rejected(FrontendConfigError(p, frontendApiConfig[p])) }
         ELSE { Fulfilled(t) : t \in texts \cup {undefined} } \cup { Rejected(ApiError) }
    ELSE { Fulfilled(t) : t \in texts }
         \cup { Rejected(BackendCatch(retries, e, API_BASE_URL, protocol).message) :
                  e \in {JsError("TypeError", FailedToFetch),
                         JsError("Error", userFriendlyError(500))} }

\* parseAuditResponse of each value a call can be fulfilled with
auditParsed == [t \in AuditTexts \cup {undefined} |-> parseAuditResponse(t)]

AuditResult(issues, error, rawResponse) ==
    [issues |-> issues, error |-> error, rawResponse |-> rawResponse]

\* the entry the forEach callback writes for a settled call (part_000:1303-1308)
AuditEntry(settled) ==
    IF settled.status = "fulfilled"
    THEN AuditResult(auditParsed[settled.value].issues, auditParsed[settled.value].error,
                     auditParsed[settled.value].rawResponse)
    ELSE AuditResult(<<>>, settled.message, undefined)

\* whether the forEach callback throws on a settled call: parseAuditResponse
\* is called outside any try
EntryThrows(settled) == settled.status = "fulfilled" /\ auditParsed[settled.value].threw

\* the configurations the audit runs under: complete, and lacking the
\* OpenAI-compatible providers' endpoint
AuditConfigTables ==
    { t \in ConfigTables : /\ ~Falsy(t["gemini"].apiKey)
                           /\ ~Falsy(t["openai"].apiKey) /\ ~Falsy(t["openai"].model) }

InitAudit ==
    /\ API_BASE_URL \in {ProxyApi, HttpHost \o ApiSuffix}
    /\ protocol = "https:"
    /\ frontendApiConfig \in AuditConfigTables
    /\ CallIdle /\ InvokeIdle /\ StreamIdle /\ ViewIdle

\* handleAuditAll up to its await: the six calls are made
AuditAllStarts(mode) ==
    /\ pc = "idle"
    /\ isLoading' = TRUE
    /\ auditResults' = <<>>
    /\ auditPromises' = [k \in 1..Len(allModels) |-> Pending]
    /\ executionMode' = mode /\ pc' = "auditing"
    /\ UNCHANGED <<provider, envVars, invokeVars, streamVars, roamVars, pureVars>>

\* the call for allModels[k] settles
AuditCallSettles(k, o) ==
    /\ pc = "auditing"
    /\ auditPromises[k] = Pending
    /\ o \in CallSettlements(allModels[k], executionMode, AuditTexts)
    /\ auditPromises' = [auditPromises EXCEPT ![k] = o]
    /\ UNCHANGED <<callVars, auditResults, isLoading, envVars, invokeVars, streamVars, roamVars, pureVars>>

\* Promise.allSettled is fulfilled and handleAuditAll resumes: the forEach,
\* then setAuditResults and setIsLoading(false); a throw in the forEach
\* rejects the promise of handleAuditAll and neither setter runs
AuditAllSettled ==
    /\ pc = "auditing"
    /\ \A k \in 1..Len(allModels) : auditPromises[k] # Pending
    /\ IF \E k \in 1..Len(allModels) : EntryThrows(auditPromises[k])
       THEN pc' = "rejected" /\ UNCHANGED <<auditResults, isLoading>>
       ELSE /\ auditResults' = [k \in 1..Len(allModels) |-> AuditEntry(auditPromises[k])]
            /\ isLoading' = FALSE
            /\ pc' = "done"
    /\ UNCHANGED <<provider, executionMode, auditPromises, envVars, invokeVars, streamVars,
                   roamVars, pureVars>>

NextAudit ==
    \/ \E mode \in {"backend", "frontend"} : AuditAllStarts(mode)
    \/ \E k \in 1..Len(allModels) :
          \E o \in CallSettlements(allModels[k], executionMode, AuditTexts) :
             AuditCallSettles(k, o)
    \/ AuditAllSettled

SpecAudit == InitAudit /\ [][NextAudit]_vars

----------------------------------------------------------------------------
(* handleStartRoaming, part_000:852-939 *)

Settled(status, value, error) == [status |-> status, value |-> value, error |-> error]
Waiting == Settled("pending", JUndefined, NoError)

\* the length of the match of /```json\n?|\n?```/ at position k; 0 when none
FenceMatchLen(s, k) ==
    IF FenceAt(s, k) /\ k + 6 <= Len(s) /\ SubSeq(s, k + 3, k + 6) = <<"j", "s", "o", "n">>
    THEN IF k + 7 <= Len(s) /\ s[k + 7] = "\n" THEN 8 ELSE 7
    ELSE IF s[k] = "\n" /\ FenceAt(s, k + 1) THEN 4
    ELSE IF FenceAt(s, k) THEN 3
    ELSE 0

\* genAiResponseText.replace(/```json\n?|\n?```/g, '')
RECURSIVE StripFences(_)
StripFences(s) ==
    LET hits == {k \in 1..Len(s) : FenceMatchLen(s, k) > 0}
        k == CHOOSE h \in hits : \A m \in hits : h <= m
    IN IF hits = {} THEN s
       ELSE SubSeq(s, 1, k - 1) \o StripFences(SubSeq(s, k + FenceMatchLen(s, k), Len(s)))

KeyConclusion   == <<"c", "o", "n", "c", "l", "u", "s", "i", "o", "n">>
KeySource       == <<"s", "o", "u", "r", "c", "e">>
KeyRelevantText == <<"r", "e", "l", "e", "v", "a", "n", "t", "T", "e", "x", "t">>
KeySourceFile   == <<"s", "o", "u", "r", "c", "e", "_", "f", "i", "l", "e">>
KeyContentChunk == <<"c", "o", "n", "t", "e", "n", "t", "_", "c", "h", "u", "n", "k">>
KeyRelated      == <<"r", "e", "l", "a", "t", "e", "d", "_", "d", "o", "c", "u", "m", "e", "n", "t", "s">>
KeyError        == <<"e", "r", "r", "o", "r">>

NoConclusion == JsError("Error",
    <<"AI model did not return a valid conclusion for one of the documents.">>)
NotReadable(what) == JsError("TypeError", <<"Cannot read properties of ", what>>)
NotJson == JsError("SyntaxError", <<"Unexpected token">>)

\* FromConclusion without the test of result.conclusion
FromConclusionUnchecked(source, r) ==
    IF ~r.ok THEN Settled("rejected", JUndefined, NotJson)
    ELSE IF r.v.t = "null" THEN Settled("rejected", JUndefined, NotReadable("null"))
    ELSE Settled("fulfilled",
                 JObj(<<[k |-> KeySource, v |-> Get(source, KeySourceFile)],
                        [k |-> KeyRelevantText, v |-> Get(source, KeyContentChunk)],
                        [k |-> KeyConclusion, v |-> Get(r.v, KeyConclusion)]>>),
                 NoError)

\* the body of the map callback after JSON.parse (part_000:918-928), from the
\* parse r of the response on
FromConclusion(source, r) ==
    IF ~r.ok THEN Settled("rejected", JUndefined, NotJson)
    ELSE IF r.v.t = "null" THEN Settled("rejected", JUndefined, NotReadable("null"))
    ELSE IF ~Truthy(Get(r.v, KeyConclusion)) THEN Settled("rejected", JUndefined, NoConclusion)
    ELSE Settled("fulfilled",
                 JObj(<<[k |-> KeySource, v |-> Get(source, KeySourceFile)],
                        [k |-> KeyRelevantText, v |-> Get(source, KeyContentChunk)],
                        [k |-> KeyConclusion, v |-> Get(r.v, KeyConclusion)]>>),
                 NoError)

\* the map callback of part_000:915-929 from the settlement o of its
\* callGenerativeAi on: what the promise of the source settles with
Synthesis(source, o) ==
    IF o.status = "rejected" THEN Settled("rejected", JUndefined, JsError("Error", o.message))
    ELSE IF o.value = undefined THEN Settled("rejected", JUndefined, NotReadable("undefined"))
    ELSE FromConclusion(source, JsonParse(StripFences(o.value)))

\* top_k of the request to find-related
top_k == 3

\* {"source_file":"f","content_chunk":"<k>"}
DocText(k) ==
    <<"{", "\"">> \o KeySourceFile \o <<"\"", ":", "\"", "f", "\"", ",", "\"">>
    \o KeyContentChunk \o <<"\"", ":", "\"">> \o NumberToString(k) \o <<"\"", "}">>

RECURSIVE DocTexts(_)
DocTexts(n) == IF n = 0 THEN <<>>
               ELSE IF n = 1 THEN DocText(1)
               ELSE DocTexts(n - 1) \o <<",">> \o DocText(n)

\* {"related_documents":<list>}
RelatedBody(list) == <<"{", "\"">> \o KeyRelated \o <<"\"", ":">> \o list \o <<"}">>

\* {"error":"busy"}
ErrorBody == <<"{", "\"">> \o KeyError \o <<"\"", ":", "\"", "b", "u", "s", "y", "\"", "}">>

\* the bodies find-related answers with: nothing, no JSON, an error, null,
\* no list, a list that is none, and 0 to top_k documents
RelatedBodies ==
    { <<>>, <<"o", "o", "p", "s">>, ErrorBody, <<"n", "u", "l", "l">>, <<"{", "}">>,
      RelatedBody(<<"5">>) }
    \cup { RelatedBody(<<"[">> \o DocTexts(n) \o <<"]">>) : n \in 0..top_k }

\* How the request to find-related is answered: fetch rejects, the response
\* is not ok (its text readable or not), or it is ok with a body.
RetrievalAnswers ==
    { [kind |-> "reject", body |-> <<>>] }
    \cup { [kind |-> "http", body |-> b] : b \in {ErrorBody, <<"d", "o", "w", "n">>, <<>>} }
    \cup { [kind |-> "http-unreadable", body |-> <<>>] }
    \cup { [kind |-> "ok", body |-> b] : b \in RelatedBodies }

\* a value substituted into a template literal
ToStr(v) == IF IsString(v) THEN v.s ELSE <<"[value as text]">>

Retrieved(kind, error, list) == [kind |-> kind, error |-> error, list |-> list]
RetrievalError(error) == Retrieved("error", error, <<>>)

\* part_000:876-885: the error of a response that is not ok, from its text
\* and the parse of its text
QueryFailed(errorText, errorJson) ==
    RetrievalError(JsError("Error",
        <<"[knowledge base query failed: ">> \o
        (IF errorText # <<>> /\ errorJson.ok /\ Truthy(GetOpt(errorJson.v, KeyError))
         THEN ToStr(GetOpt(errorJson.v, KeyError)) ELSE errorText)))

\* part_000:900-910, from the related_documents taken on
FromSources(list) ==
    IF ~IsArray(list) THEN RetrievalError(JsError("TypeError", <<"sources.map is not a function">>))
    ELSE IF Len(list.a) = 0 THEN Retrieved("none", NoError, <<>>)
    ELSE Retrieved("sources", NoError, list.a)

\* FromBackendData without the test of backendData.error
FromBackendDataNoErrorField(parsed) ==
    IF ~parsed.ok
    THEN RetrievalError(JsError("Error", <<"Backend returned invalid JSON: ">> \o NotJson.message))
    ELSE IF parsed.v.t = "null" THEN RetrievalError(NotReadable("null"))
    ELSE FromSources(ValueOr(Get(parsed.v, KeyRelated), JArr(<<>>)))

\* part_000:892-904, from the parse of the response text on
FromBackendData(parsed) ==
    IF ~parsed.ok
    THEN RetrievalError(JsError("Error", <<"Backend returned invalid JSON: ">> \o NotJson.message))
    ELSE IF parsed.v.t = "null" THEN RetrievalError(NotReadable("null"))
    ELSE IF Truthy(Get(parsed.v, KeyError))
    THEN RetrievalError(JsError("Error", <<"[knowledge base returned an error: ">>
                                           \o ToStr(Get(parsed.v, KeyError))))
    ELSE FromSources(ValueOr(Get(parsed.v, KeyRelated), JArr(<<>>)))

\* Step 1 of handleStartRoaming (part_000:866-910) for the answer a
Retrieval(a) ==
    IF a.kind = "reject" THEN RetrievalError(JsError("TypeError", FailedToFetch))
    ELSE IF a.kind = "http" THEN QueryFailed(a.body, JsonParse(a.body))
    ELSE IF a.kind = "http-unreadable"
    THEN QueryFailed(<<"Internal Server Error">>, JsonParse(<<"Internal Server Error">>))
    ELSE IF a.body = <<>>
    THEN RetrievalError(JsError("Error", <<"[knowledge base query returned nothing]">>))
    ELSE FromBackendData(JsonParse(a.body))

NothingRelated == JStr(<<"[nothing related enough was found in the knowledge base]">>)

\* the texts a model answers a synthesis with: the object asked for, the same
\* in a fenced block, an empty conclusion, and prose
ConclusionText   == <<"{", "\"", "c", "o", "n", "c", "l", "u", "s", "i", "o", "n", "\"", ":", "\"", "c", "\"", "}">>
FencedConclusion == <<"BQ", "BQ", "BQ", "j", "s", "o", "n", "\n", "{", "\"", "c", "o", "n", "c", "l", "u", "s", "i", "o", "n", "\"", ":", "\"", "c", "\"", "}", "\n", "BQ", "BQ", "BQ">>
EmptyConclusion  == <<"{", "\"", "c", "o", "n", "c", "l", "u", "s", "i", "o", "n", "\"", ":", "\"", "\"", "}">>
RoamTexts == {ConclusionText, FencedConclusion, EmptyConclusion, ProseText}

\* the values in the order the promises settled in
PromiseAllAsSettled(promises, order) == [m \in 1..Len(promises) |-> promises[order[m]].value]

\* the value of Promise.all(roamingPromises) (part_000:931): the values of
\* the promises in the order of the array, whatever order they settled in
PromiseAll(promises, order) == [m \in 1..Len(promises) |-> promises[m].value]

\* the catch without the finally
RoamingFailsNoFinally(err) ==
    /\ roamingError' = JStr(getBackendErrorMessage(err, API_BASE_URL, protocol))
    /\ pc' = "done"
    /\ UNCHANGED <<roamingResult, isRoaming>>

\* the catch and the finally of handleStartRoaming (part_000:934-938)
RoamingFails(err) ==
    /\ roamingError' = JStr(getBackendErrorMessage(err, API_BASE_URL, protocol))
    /\ isRoaming' = FALSE
    /\ pc' = "done"
    /\ UNCHANGED roamingResult

\* the configurations roaming runs under: complete, and lacking the
\* OpenAI-compatible providers' endpoint
InitRoam ==
    /\ API_BASE_URL \in {ProxyApi, HttpHost \o ApiSuffix}
    /\ protocol \in {"http:", "https:"}
    /\ frontendApiConfig \in AuditConfigTables
    /\ CallIdle /\ InvokeIdle /\ StreamIdle /\ ViewIdle

\* handleStartRoaming up to its first await; without a knowledge base or an
\* analysis it returns at once
RoamingStarts(knowledgeBase, analysed, p, mode) ==
    /\ pc = "idle"
    /\ IF ~knowledgeBase \/ ~analysed THEN UNCHANGED vars
       ELSE /\ isRoaming' = TRUE
            /\ roamingError' = JNull
            /\ roamingResult' = JNull
            /\ provider' = p /\ executionMode' = mode /\ pc' = "retrieving"
            /\ UNCHANGED <<sources, roamingCalls, roamingPromises, roamingOrder, auditVars,
                           envVars, invokeVars, streamVars, pureVars>>

\* find-related is answered: step 1, and the calls of step 2 are made
RetrievalSettles(a) ==
    /\ pc = "retrieving"
    /\ \E r \in {Retrieval(a)} :
          IF r.kind = "error"
          THEN RoamingFails(r.error) /\ UNCHANGED <<sources, roamingCalls, roamingPromises>>
          ELSE IF r.kind = "none"
          THEN /\ roamingError' = NothingRelated
               /\ isRoaming' = FALSE
               /\ pc' = "done"
               /\ UNCHANGED <<sources, roamingCalls, roamingPromises, roamingResult>>
          ELSE /\ sources' = r.list
               /\ roamingCalls' = [k \in 1..Len(r.list) |-> Pending]
               /\ roamingPromises' = [k \in 1..Len(r.list) |-> Waiting]
               /\ pc' = "synthesizing"
               /\ UNCHANGED <<isRoaming, roamingResult, roamingError>>
    /\ UNCHANGED <<provider, executionMode, roamingOrder, auditVars, envVars, invokeVars,
                   streamVars, pureVars>>

\* the call for sources[k] settles and its map callback runs to its end; the
\* first rejection rejects Promise.all, the last fulfilment fulfils it, and
\* handleStartRoaming resumes; a settlement after that changes nothing else
SynthesisSettles(k, o) ==
    /\ pc \in {"synthesizing", "done"}
    /\ k \in 1..Len(roamingCalls)
    /\ roamingCalls[k] = Pending
    /\ roamingCalls' = [roamingCalls EXCEPT ![k] = o]
    /\ roamingOrder' = Append(roamingOrder, k)
    /\ \E settled \in {Synthesis(sources[k], o)} :
          /\ roamingPromises' = [roamingPromises EXCEPT ![k] = settled]
          /\ IF pc = "done"
             THEN UNCHANGED <<pc, isRoaming, roamingResult, roamingError>>
             ELSE IF settled.status = "rejected" THEN RoamingFails(settled.error)
             ELSE IF \A m \in 1..Len(roamingPromises) : roamingPromises'[m].status = "fulfilled"
             THEN /\ roamingResult' = JArr(PromiseAll(roamingPromises', roamingOrder'))
                  /\ isRoaming' = FALSE
                  /\ pc' = "done"
                  /\ UNCHANGED roamingError
             ELSE UNCHANGED <<pc, isRoaming, roamingResult, roamingError>>
    /\ UNCHANGED <<provider, executionMode, sources, auditVars, envVars, invokeVars, streamVars,
                   pureVars>>

NextRoam ==
    \/ \E knowledgeBase \in BOOLEAN, analysed \in BOOLEAN :
          \E p \in {"gemini", "openai"}, mode \in {"backend", "frontend"} :
             RoamingStarts(knowledgeBase, analysed, p, mode)
    \/ \E a \in RetrievalAnswers : RetrievalSettles(a)
    \/ \E k \in 1..Len(roamingCalls) :
          \E o \in CallSettlements(provider, executionMode, RoamTexts) :
             SynthesisSettles(k, o)

SpecRoam == InitRoam /\ [][NextRoam]_vars

----------------------------------------------------------------------------
(* One response through parseJsonResponse and parseAuditResponse, and the   *)
(* data it gave through JSON.stringify and parseJsonResponse again          *)

RECURSIVE Concat(_)
Concat(ss) == IF ss = <<>> THEN <<>> ELSE Head(ss) \o Concat(Tail(ss))

\* ss.join(',')
RECURSIVE Joined(_)
Joined(ss) ==
    IF ss = <<>> THEN <<>>
    ELSE IF Len(ss) = 1 THEN ss[1]
    ELSE ss[1] \o <<",">> \o Joined(Tail(ss))

\* JSON.stringify of one character of a string
Escaped(c) ==
    CASE c = "\"" -> <<"\\", "\"">>
      [] c = "\\" -> <<"\\", "\\">>
      [] c = "\n" -> <<"\\", "n">>
      [] c = "\t" -> <<"\\", "t">>
      [] c = "\r" -> <<"\\", "r">>
      [] OTHER    -> <<c>>

Quoted(s) == <<"\"">> \o Concat([k \in 1..Len(s) |-> Escaped(s[k])]) \o <<"\"">>

\* JSON.stringify(v): the canonical serialization, members in insertion
\* order, no white space
RECURSIVE Stringify(_)
Stringify(v) ==
    CASE v.t = "null"    -> <<"n", "u", "l", "l">>
      [] v.t = "boolean" -> IF v.n = 1 THEN <<"t", "r", "u", "e">>
                            ELSE <<"f", "a", "l", "s", "e">>
      [] v.t = "number"  -> IF v.n < 0 THEN <<"-">> \o NumberToString(0 - v.n)
                            ELSE NumberToString(v.n)
      [] v.t = "string"  -> Quoted(v.s)
      [] v.t = "array"   ->
            <<"[">> \o Joined([k \in 1..Len(v.a) |-> Stringify(v.a[k])]) \o <<"]">>
      [] v.t = "object"  ->
            <<"{">> \o Joined([k \in 1..Len(v.o) |->
                                 Quoted(v.o[k].k) \o <<":">> \o Stringify(v.o[k].v)])
                    \o <<"}">>
      [] OTHER -> undefined

\* ---- the texts a model answers with

Str(s) == <<"\"">> \o s \o <<"\"">>
Pair(key, valueText) == Str(key) \o <<":">> \o valueText
Braces(members) == <<"{">> \o Joined(members) \o <<"}">>
Brackets(elements) == <<"[">> \o Joined(elements) \o <<"]">>

\* an issue object with its four fields
IssueObject(p, s, c, e) ==
    Braces(<<Pair(KeyProblematicText, Str(p)), Pair(KeySuggestion, Str(s)),
             Pair(KeyChecklistItem, Str(c)), Pair(KeyExplanation, Str(e))>>)

FixIt == <<"f", "i", "x", " ", "i", "t">>

\* valid JSON lists of issue objects; the last quotes a comma before a bracket
IssueLists ==
    { Brackets(<<IssueObject(<<"p">>, <<"s">>, <<"c">>, <<"e">>),
                 IssueObject(<<"q">>, FixIt, <<"d">>, <<"f">>)>>),
      Brackets(<<IssueObject(<<"p">>, <<>>, <<"c">>, <<"e">>)>>),
      Brackets(<<IssueObject(<<"a", ",", "]">>, <<"s">>, <<"c">>, <<"e">>)>>) }

\* a list with entries to keep, to salvage and to drop
MixedList ==
    Brackets(<<Braces(<<Pair(KeySuggestion, Str(FixIt))>>),
               Braces(<<>>),
               Braces(<<Pair(KeyProblematicText, Str(<<"p">>))>>),
               <<"7">>,
               Braces(<<Pair(KeyExplanation, Str(<<"e">>))>>),
               Braces(<<Pair(KeySuggestion, Str(<<>>))>>),
               Braces(<<Pair(KeyProblematicText, Str(<<>>)), Pair(KeySuggestion, Str(<<"s">>))>>),
               <<"n", "u", "l", "l">>,
               Braces(<<Pair(KeyReason, Str(<<"r">>))>>),
               Braces(<<Pair(KeyProblematicText, <<"5">>), Pair(KeyExplanation, Str(<<"e">>))>>),
               IssueObject(<<"q">>, <<"t">>, <<"d">>, <<"f">>)>>)

DroppedFirst ==
    Brackets(<<Braces(<<>>), IssueObject(<<"p">>, <<"s">>, <<"c">>, <<"e">>),
               <<"\"", "x", "\"">>, Braces(<<Pair(KeyExplanation, Str(<<"e">>))>>)>>)

\* texts with commas before a closing brace or bracket
TrailingObject        == <<"{", "\"", "a", "\"", ":", "1", ",", "}">>
TrailingList          == <<"[", "1", ",", " ", "2", " ", ",", " ", "]">>
TrailingNested        == <<"{", "\"", "a", "\"", ":", "[", "1", ",", "]", ",", "\n", "}">>
CommasInString        == <<"[", "\"", "a", ",", ",", "]", "\"", "]">>
CommaInStringTrailing == <<"[", "\"", "a", ",", "]", "\"", ",", "]">>
DoubleComma           == <<"[", "1", ",", ",", "]">>
\* an object with two lists: from its first bracket to its last is no JSON
TwoLists ==
    <<"{", "\"", "a", "\"", ":", "[", "1", "]", ",", "\"", "b", "\"", ":", "[", "2", "]", "}">>

OtherTexts ==
    { <<"[", "]">>,
      <<"{", "\"", "a", "\"", ":", "1", "}">>,
      Braces(<<Pair(KeyIssues, Brackets(<<IssueObject(<<"p">>, <<"s">>, <<"c">>, <<"e">>)>>))>>),
      Braces(<<Pair(KeyProblematicText, Str(<<"p">>)), Pair(KeySuggestion, Str(<<"s">>))>>),
      <<"{", "\"", "b", "\"", ":", "[", "t", "r", "u", "e", ",", "f", "a", "l", "s", "e", ",",
        "n", "u", "l", "l", ",", "-", "3", ",", "\"", "x", "\\", "n", "\\", "\"", "y", "\\",
        "\\", "\"", "]", "}">>,
      <<"0">>, <<"5">>, <<"n", "u", "l", "l">>, <<"\"", "\"">>, <<"\"", "t", "\"">>,
      <<"f", "a", "l", "s", "e">> }

\* the JSON a model may put into its answer
JsonTexts ==
    IssueLists \cup OtherTexts
    \cup {MixedList, DroppedFirst, TrailingObject, TrailingList, TrailingNested,
          CommasInString, CommaInStringTrailing, DoubleComma, TwoLists}

Prose    == <<"H", "e", "r", "e", " ", "i", "s", " ", "m", "y", " ", "a", "u", "d", "i", "t", ":">>
Closing  == <<"D", "o", "n", "e", ".">>
JsonTag  == <<"j", "s", "o", "n">>

\* prose, then the JSON in a fenced block tagged json; prose, then an untagged
\* fenced block, then prose; the JSON between prose; the JSON in white space
ProseThenTagged(c) == Prose \o <<"\n">> \o Fence \o JsonTag \o <<"\n">> \o c \o <<"\n">> \o Fence
ProseThenFenced(c) == Prose \o <<" ">> \o Fence \o c \o Fence \o <<"\n">> \o Closing
BetweenProse(c)    == Prose \o <<" ">> \o c \o <<" ">> \o Closing
Padded(c)          == <<" ", "\n">> \o c \o <<"\n">>

\* answers that hold no JSON: the first five say that nothing was found
ProseTexts ==
    { <<"N", "o", " ", "i", "s", "s", "u", "e", "s", " ", "f", "o", "u", "n", "d", ".">>,
      <<"N", "O", " ", "I", "S", "S", "U", "E", "S", " ", "F", "O", "U", "N", "D">>,
      <<"U6CA1", "U6709", "U53D1", "U73B0", "U95EE", "U9898">>,
      <<"U7ECF", "U68C0", "U67E5", "U672A", "U53D1", "U73B0", "U95EE", "U9898">>,
      Prose \o <<" ", "n", "o", " ", "I", "s", "s", "u", "e", "s", " ", "F", "o", "u", "n", "d">>,
      <<"S", "o", "r", "r", "y", ".">>,
      <<"n", "o", " ", "i", "s", "s", "u", "e", " ", "f", "o", "u", "n", "d">>,
      <<"U53D1", "U73B0", "U95EE", "U9898">>,
      <<>> }

ParserInputs ==
    ProseTexts \cup UNION { {c, ProseThenTagged(c), ProseThenFenced(c), BetweenProse(c), Padded(c)}
                            : c \in JsonTexts }

\* the type arguments parseJsonResponse is instantiated with: unknown by
\* parseAuditResponse (part_000:1157), and a list type; a type argument is
\* erased when the code is compiled, so the function is the same for both
TypeArguments == {"unknown", "list"}

\* a model has answered with one of the texts
InitParse ==
    /\ API_BASE_URL = ProxyApi
    /\ protocol = "https:"
    /\ frontendApiConfig \in AuditConfigTables
    /\ provider = "none" /\ executionMode = "none" /\ pc = "answered"
    /\ InvokeIdle /\ StreamIdle /\ AuditIdle /\ RoamIdle /\ CleanIdle
    /\ rawText \in ParserInputs
    /\ typeArgument \in TypeArguments
    /\ jsonResult = NoResult /\ audited = NoResult /\ reparsed = NoResult

\* parseAuditResponse(responseText), with the result of the parseJsonResponse
\* it starts with (part_000:1157)
ParseResponse ==
    /\ pc = "answered"
    /\ \E r \in {parseJsonResponse(rawText)} :
          /\ jsonResult' = r
          /\ audited' = FromParsed(r, rawText)
    /\ pc' = "parsed"
    /\ UNCHANGED <<provider, executionMode, rawText, typeArgument, reparsed, cleanVars, envVars, invokeVars,
                   streamVars, auditVars, roamVars>>

\* parseJsonResponse(JSON.stringify(data)) for the data of a successful parse
ParseSerialized ==
    /\ pc = "parsed"
    /\ ~jsonResult.threw /\ jsonResult.error = undefined
    /\ reparsed' = parseJsonResponse(Stringify(jsonResult.data))
    /\ pc' = "reparsed"
    /\ UNCHANGED <<provider, executionMode, rawText, typeArgument, jsonResult, audited, cleanVars, envVars,
                   invokeVars, streamVars, auditVars, roamVars>>

NextParse == ParseResponse \/ ParseSerialized

SpecParse == InitParse /\ [][NextParse]_vars

\* the two places a structured answer is read at: the audit's parser and the
\* synthesis of roaming (part_000:915-923)
InitStructured == InitParse \/ InitRoam
NextStructured == NextParse \/ NextRoam
SpecStructured == InitStructured /\ [][NextStructured]_vars

----------------------------------------------------------------------------
(* One environment string through cleanEnv, and the result through it again *)

\* the strings an environment variable holds: white space, quotes straight
\* and smart, and a letter, up to MaxEnvLen characters; or no value at all
MaxEnvLen == 4
EnvChars == {" ", "\t", "\"", "'", "LDQ", "RDQ", "k"}
EnvValues == {undefined} \cup UNION { [1..n -> EnvChars] : n \in 0..MaxEnvLen }

InitClean ==
    /\ API_BASE_URL = ProxyApi
    /\ protocol = "https:"
    /\ frontendApiConfig \in AuditConfigTables
    /\ provider = "none" /\ executionMode = "none" /\ pc = "read"
    /\ InvokeIdle /\ StreamIdle /\ AuditIdle /\ RoamIdle /\ ParseIdle
    /\ envValue \in EnvValues
    /\ cleaned = <<>> /\ recleaned = <<>>

\* cleanEnv(value)
Clean ==
    /\ pc = "read"
    /\ cleaned' = cleanEnv(envValue)
    /\ pc' = "cleaned"
    /\ UNCHANGED <<provider, executionMode, envValue, recleaned, parseVars, envVars, invokeVars,
                   streamVars, auditVars, roamVars>>

\* cleanEnv of the result
CleanAgain ==
    /\ pc = "cleaned"
    /\ recleaned' = cleanEnv(cleaned)
    /\ pc' = "recleaned"
    /\ UNCHANGED <<provider, executionMode, envValue, cleaned, parseVars, envVars, invokeVars,
                   streamVars, auditVars, roamVars>>

NextClean == Clean \/ CleanAgain

SpecClean == InitClean /\ [][NextClean]_vars

----------------------------------------------------------------------------
(* Properties of callGenerativeAi *)

Range(f) == {f[k] : k \in DOMAIN f}

\* C1: a backend-mode call sends at most 3 requests to the proxy; a wait of
\* exactly 1000 ms follows failed attempt 1 and failed attempt 2, one wait
\* between two consecutive attempts, and no wait follows attempt 3 or a
\* successful attempt.
C1_RetryBudget ==
    executionMode = "backend" =>
        /\ Len(attempts) <= 3
        /\ directRequests = 0
        /\ \A k \in 1..Len(delays) :
              /\ delays[k].ms = 1000
              /\ delays[k].after = k
              /\ k \in {1, 2}
              /\ Failed(attempts[k])
        /\ Len(delays) <= Len(attempts)
        /\ pc = "attempt" => Len(delays) = Len(attempts)
        /\ pc = "done" => Len(delays) = Len(attempts) - 1

C1_Witness ==
    /\ executionMode = "backend" /\ pc = "done"
    /\ Len(attempts) = 3 /\ Len(delays) = 2
    /\ \A k \in 1..3 : Failed(attempts[k])

\* C2: a finished backend-mode call is fulfilled exactly when one of its
\* attempts succeeded; that attempt is the last one made, every attempt before
\* it failed, the value is its response text and no error is surfaced.
C2_FirstSuccessReturned ==
    (executionMode = "backend" /\ pc = "done") =>
        /\ result.status = "fulfilled" <=> \E k \in 1..Len(attempts) : ~Failed(attempts[k])
        /\ result.status = "fulfilled" =>
              /\ ~Failed(attempts[Len(attempts)])
              /\ \A k \in 1..(Len(attempts) - 1) : Failed(attempts[k])
              /\ result.value = attempts[Len(attempts)].text
              /\ result.message = <<>>

C2_Witness ==
    /\ executionMode = "backend" /\ pc = "done"
    /\ Len(attempts) = 3
    /\ attempts[1].kind = "reject" /\ attempts[2].kind = "reject"
    /\ attempts[3].kind = "ok"
    /\ result = Fulfilled(attempts[3].text)

\* the error an attempt's outcome raises
ErrorOfOutcome(o) ==
    IF o.kind = "reject" THEN o.error ELSE JsError("Error", userFriendlyError(o.status))

\* C3: a backend-mode call is rejected only after 3 failed attempts, and the
\* message it is rejected with is the classified message of the third
\* failure alone.
C3_LastErrorSurfaced ==
    (executionMode = "backend" /\ result.status = "rejected") =>
        /\ Len(attempts) = 3
        /\ \A k \in 1..3 : Failed(attempts[k])
        /\ result.message =
              getBackendErrorMessage(ErrorOfOutcome(attempts[3]), API_BASE_URL, protocol)

C3_Witness ==
    /\ executionMode = "backend" /\ result.status = "rejected"
    /\ Len(attempts) = 3
    /\ attempts[1] = Outcome("http", 500, <<>>, NoError)
    /\ attempts[2] = Outcome("reject", 0, <<>>, JsError("Error", <<>>))
    /\ attempts[3] = Outcome("reject", 0, <<>>, JsError("TypeError", FailedToFetch))
    /\ protocol = "http:"
    /\ result.message # userFriendlyError(500)
    /\ Includes(result.message, API_BASE_URL)

\* the configuration of the called provider lacks a field the frontend mode needs
Misconfigured ==
    LET config == frontendApiConfig[provider]
    IN \/ Falsy(config.model)
       \/ Falsy(config.apiKey)
       \/ (provider # "gemini" /\ Falsy(config.endpoint))

\* C4: a frontend-mode call whose provider lacks its model, its credential
\* or (gemini apart) its endpoint is rejected with a 'not configured' error
\* at once: no request is sent and nothing is retried.
C4_MisconfiguredFailsFast ==
    (executionMode = "frontend" /\ Misconfigured) =>
        /\ pc = "done"
        /\ result.status = "rejected"
        /\ NotConfigured \in Range(result.message)
        /\ directRequests = 0
        /\ attempts = <<>> /\ delays = <<>>

C4_Witness ==
    /\ executionMode = "frontend" /\ provider = "deepseek"
    /\ ~Falsy(frontendApiConfig[provider].model)
    /\ ~Falsy(frontendApiConfig[provider].apiKey)
    /\ Falsy(frontendApiConfig[provider].endpoint)
    /\ pc = "done" /\ result.status = "rejected"


Terminal(c) == c.cb \in {"onComplete", "onError"}
IsChunk(c) == c.cb = "onChunk"
\* the calls of onChunk made so far, in order
Chunks == SelectSeq(calls, IsChunk)
\* the stream was ended by onComplete
Completed == pc = "done" /\ calls # <<>> /\ calls[Len(calls)] = OnComplete
\* the bytes read so far
Consumed == SubSeq(sent, 1, Len(sent) - Len(wire))

\* C5: a streaming call whose reads have ended (by the sentinel, by the close
\* of the body, by a failure, a misconfiguration or a response that is not ok)
\* has invoked exactly one terminal callback, onComplete or onError, once, and
\* nothing after it; a call still running has invoked none.  On every path:
\* backend, gemini frontend, OpenAI-compatible frontend, and part_001's.
C5_OneTerminalCallback ==
    /\ pc = "done" =>
          /\ Len(SelectSeq(calls, Terminal)) = 1
          /\ Terminal(calls[Len(calls)])
    /\ pc # "done" => Len(SelectSeq(calls, Terminal)) = 0

\* the sentinel ends an OpenAI-compatible stream while bytes of the body, an
\* event among them, are still unread
C5_Witness ==
    /\ pc = "done" /\ path = "openai" /\ sent = EventBody /\ wire # <<>>
    /\ calls[Len(calls)] = OnComplete
    /\ Len(SelectSeq(calls, Terminal)) = 1

\* the onChunk calls of the body delivered in one read
OneReadChunks(body) ==
    SelectSeq(ProcessRead(<<>>, Decode(<<>>, body).text).calls, IsChunk)

IsPrefix(a, b) == Len(a) <= Len(b) /\ a = SubSeq(b, 1, Len(a))

\* C6: in the event-line decoder, however the body is split into reads, the
\* onChunk calls made so far are a prefix of those of the body delivered in
\* one read, and a stream that completed after all its bytes were read made
\* exactly those; the body of two events made exactly two calls, one per
\* event, also when a read ends exactly at an event line's terminator.
C6_SplitInvariant ==
    path = "openai" =>
        /\ IsPrefix(Chunks, OneReadChunks(sent))
        /\ Completed => Chunks = OneReadChunks(sent)
        /\ Completed /\ sent = EventBody =>
              Chunks = <<OnChunk(JStr(<<"a">>)), OnChunk(JStr(<<EAcute>>))>>

\* the first read ended exactly at the terminator of the first event line:
\* the line was parsed into one event and nothing is left in the buffer
C6_Witness ==
    /\ path = "openai" /\ sent = EventBody /\ pc = "reading" /\ nReads = 1
    /\ Consumed = EventLine(<<"a">>) \o NL
    /\ buffer = <<>>
    /\ calls = <<OnChunk(JStr(<<"a">>))>>

RECURSIVE ChunkText(_)
\* the texts handed to onChunk, joined
ChunkText(cs) == IF cs = <<>> THEN <<>> ELSE Head(cs).arg.s \o ChunkText(Tail(cs))

\* C7 as stated: in backend mode an event stream is decoded, onChunk receives
\* the text deltas and the sentinel ends the stream.
C7_BackendDecodesEvents ==
    path = "backend" /\ sent = ShortEventBody /\ Completed =>
        calls = <<OnChunk(JStr(<<"a">>)), OnComplete>>

\* C7 amended: backend mode forwards each read's decoded text to onChunk
\* verbatim, one call per read, whatever the shape of the body: the lines of
\* an event stream, prefix, payload and sentinel included, reach onChunk as
\* they are, and only the close of the body ends the stream.  Event lines are
\* decoded into text deltas, the sentinel ending the stream, in frontend mode
\* for OpenAI-compatible providers only.
C7_BackendForwardsVerbatim ==
    /\ path \in {"backend", "legacy"} =>
          /\ Len(Chunks) = nReads
          /\ ChunkText(Chunks) = Decode(<<>>, Consumed).text
          /\ Completed => wire = <<>>
    /\ path = "openai" /\ sent = EventBody /\ Completed =>
          calls = <<OnChunk(JStr(<<"a">>)), OnChunk(JStr(<<EAcute>>)), OnComplete>>

\* an event stream was read to its end in backend mode in two reads: its
\* bytes, sentinel line included, went to onChunk
C7_Witness ==
    /\ path = "backend" /\ sent = ShortEventBody /\ Completed /\ nReads = 2
    /\ ChunkText(Chunks) = ShortEventBody


----------------------------------------------------------------------------
(* Properties of handleAuditAll *)

\* handleAuditAll has run to its end, by its last statement or by a throw
AuditOver == pc \in {"done", "rejected"} /\ auditPromises # <<>>

\* C8: once the fan-out over the N providers is over and the call of some
\* provider K rejected, the published map has exactly N entries, one per
\* provider; entry K has an empty issue list and K's error message, and every
\* other entry is what its own provider's response yields.
C8_FanOutIsolation ==
    (AuditOver /\ \E k \in 1..Len(allModels) : auditPromises[k].status = "rejected") =>
        /\ DOMAIN auditResults = 1..Len(allModels)
        /\ \A k \in 1..Len(allModels) :
              IF auditPromises[k].status = "rejected"
              THEN /\ auditResults[k].issues = <<>>
                   /\ auditResults[k].error = auditPromises[k].message
              ELSE auditResults[k] = AuditEntry(auditPromises[k])

\* C9: the fan-out never fails as a unit: whatever the calls settled with
\* (text, absent text, error, unparseable text), handleAuditAll completes,
\* publishes the map of all providers and resets the loading flag.
C9_NeverFailsAsUnit ==
    AuditOver =>
        /\ pc = "done"
        /\ isLoading = FALSE
        /\ DOMAIN auditResults = 1..Len(allModels)


----------------------------------------------------------------------------
(* Properties of handleStartRoaming *)

\* the parse r carries a conclusion that is not empty
ConclusionIn(r) == r.ok /\ r.v.t # "null" /\ Truthy(Get(r.v, KeyConclusion))

\* the settled call o yielded a response with a parseable conclusion that is
\* not empty
HasConclusion(o) ==
    /\ o.status = "fulfilled"
    /\ o.value # undefined
    /\ ConclusionIn(JsonParse(StripFences(o.value)))

\* C10: when retrieval returned n >= 1 snippets and one of the n synthesis
\* calls has failed or has yielded a response without a parseable conclusion
\* that is not empty, no result list is published (roamingResult is null),
\* an error is reported and roaming is over, whichever calls settled before
\* or settle after it.
C10_AllOrNothing ==
    (/\ Len(sources) >= 1
     /\ \E k \in 1..Len(roamingCalls) :
           roamingCalls[k] # Pending /\ ~HasConclusion(roamingCalls[k])) =>
        /\ roamingResult = JNull
        /\ roamingError.t = "string" /\ roamingError.s # <<>>
        /\ isRoaming = FALSE
        /\ pc = "done"

\* three snippets, the synthesis of the first and the third succeeded, that
\* of the second yielded an empty conclusion: nothing is published
C10_Witness ==
    /\ Len(sources) = 3
    /\ HasConclusion(roamingCalls[1]) /\ roamingPromises[1].status = "fulfilled"
    /\ roamingCalls[2] = Fulfilled(EmptyConclusion)
    /\ roamingCalls[3] = Fulfilled(FencedConclusion) /\ roamingPromises[3].status = "fulfilled"
    /\ roamingResult = JNull /\ roamingError # JNull /\ pc = "done"


\* C11: a published roaming result has exactly one item per retrieved
\* snippet, and item m carries the source file and the content chunk of
\* snippet m and the conclusion of snippet m's own call: the order of the
\* retrieval is kept, whatever order the calls settled in.
C11_RankingOrderKept ==
    roamingResult # JNull =>
        /\ Len(roamingResult.a) = Len(sources)
        /\ \A m \in 1..Len(sources) :
              /\ Get(roamingResult.a[m], KeySource) = Get(sources[m], KeySourceFile)
              /\ Get(roamingResult.a[m], KeyRelevantText) = Get(sources[m], KeyContentChunk)
              /\ roamingResult.a[m] = roamingPromises[m].value
              /\ HasConclusion(roamingCalls[m])

\* three snippets whose calls settled in the order 3, 1, 2, each with its
\* own text: the result lists them as 1, 2, 3
C11_Witness ==
    /\ Len(sources) = 3 /\ roamingOrder = <<3, 1, 2>>
    /\ roamingResult # JNull
    /\ \A m \in 1..3 :
          Get(roamingResult.a[m], KeyRelevantText) = JStr(NumberToString(m))

----------------------------------------------------------------------------
(* Properties of parseJsonResponse and parseAuditResponse *)

\* C12: parser idempotence: whenever parseJsonResponse parses a text to a
\* value v, parsing JSON.stringify(v) gives a value equal to v.
C12_ParserIdempotent ==
    pc = "reparsed" =>
        /\ ~reparsed.threw
        /\ reparsed.error = undefined
        /\ reparsed.data = jsonResult.data

\* the four fields of an issue object as JSON.parse reads them
FieldsOf(o) ==
    AuditIssue(Get(o, KeyProblematicText), Get(o, KeySuggestion),
               Get(o, KeyChecklistItem), Get(o, KeyExplanation))
IssuesOf(c) == [k \in 1..Len(JsonParse(c).v.a) |-> FieldsOf(JsonParse(c).v.a[k])]

\* C13: a response made of prose and a fenced block (tagged json or not)
\* holding a valid JSON list of issue objects is not parsed as a whole and
\* is recovered from the block: parseAuditResponse returns one issue per
\* object, with the object's four fields, and no error.
C13_FencedBlockRecovered ==
    \A c \in IssueLists :
        (pc \in {"parsed", "reparsed"} /\ rawText \in {ProseThenTagged(c), ProseThenFenced(c)}) =>
            /\ ~JsonParse(FixedStr(Trim(rawText))).ok /\ ~JsonParse(Trim(rawText)).ok
            /\ ~audited.threw
            /\ audited.error = undefined
            /\ audited.issues = IssuesOf(c)

\* whether position j of s lies inside a string literal: an odd number of
\* unescaped quotes stand before it
QuoteAt(s, k) ==
    /\ s[k] = "\""
    /\ LET run == {m \in 0..(k - 1) : \A q \in (k - m)..(k - 1) : s[q] = "\\"}
       IN (CHOOSE m \in run : \A q \in run : m >= q) % 2 = 0
InString(s, j) == Cardinality({k \in 1..(j - 1) : QuoteAt(s, k)}) % 2 = 1

\* the commas of s placed, up to white space, before a closing brace or
\* bracket of the JSON structure, and s without them
TrailingCommas(s) ==
    {j \in 1..Len(s) : /\ s[j] = "," /\ ~InString(s, j)
                       /\ NextNonWs(s, j + 1) <= Len(s)
                       /\ s[NextNonWs(s, j + 1)] \in {"}", "]"}}
WithoutTrailingCommas(s) ==
    SelectSeq([j \in 1..Len(s) |-> IF j \in TrailingCommas(s) THEN "" ELSE s[j]], Kept)

\* s is no valid JSON, and only because of its trailing commas
OnlyTrailingCommasWrong(s) ==
    /\ ~JsonParse(s).ok
    /\ JsonParse(WithoutTrailingCommas(s)).ok

\* C14: trailing-comma tolerance: a text that is no valid JSON only because
\* of commas placed (up to white space) before a closing brace or bracket
\* parses, with no error, to the value of the text without those commas.
C14_TrailingCommaTolerance ==
    (pc \in {"parsed", "reparsed"} /\ OnlyTrailingCommasWrong(Trim(rawText))) =>
        /\ ~jsonResult.threw
        /\ jsonResult.error = undefined
        /\ jsonResult.data = JsonParse(WithoutTrailingCommas(Trim(rawText))).v

\* what the three structural stages leave (part_000:1110-1138)
Recovered(t) ==
    FromSpan(FromMarkdown(tryParse(Trim(t)), MarkdownMatch(Trim(t))), Trim(t), EnclosedSpan(Trim(t)))

\* the same letter, in either case
SameLetter(a, b) == a = b \/ \E k \in 1..26 : {a, b} = {UpperCase[k], LowerCase[k]}
\* t contains a sentinel phrase, letters compared without regard to case
SaysNothingFound(t) ==
    \E w \in Sentinels : \E k \in 1..(Len(t) - Len(w) + 1) :
        \A j \in 1..Len(w) : SameLetter(t[k + j - 1], w[j])

\* C15: when no structural stage recovers a value and the text contains,
\* in any case, one of the three sentinel phrases, parseJsonResponse gives
\* an empty list with no error, and parseAuditResponse an empty issue list
\* with no error and no raw response.
C15_SentinelGivesEmptyList ==
    (pc \in {"parsed", "reparsed"} /\ Recovered(rawText) = JNull /\ SaysNothingFound(rawText)) =>
        /\ jsonResult = Parsed(JArr(<<>>), undefined, undefined)
        /\ audited = AuditParsed(<<>>, undefined, undefined)

\* an answer in capitals, one in Chinese inside a sentence
C15_Witness ==
    /\ pc = "parsed"
    /\ rawText \in ProseTexts /\ Len(rawText) >= 2
    /\ \/ rawText[1] = "N" /\ rawText[2] = "O"
       \/ rawText[1] = "U7ECF"
    /\ Recovered(rawText) = JNull /\ SaysNothingFound(rawText)
    /\ audited.issues = <<>> /\ audited.error = undefined

\* a string that is not empty
HasText(v) == v.t = "string" /\ v.s # <<>>
\* an entry of the parsed list: with its problematicText; without it (absent
\* or unusable) but with a suggestion or an explanation to show
Complete(e)    == e.t = "object" /\ HasText(Get(e, KeyProblematicText))
Salvageable(e) == /\ e.t = "object" /\ ~Complete(e)
                  /\ HasText(Get(e, KeySuggestion)) \/ HasText(Get(e, KeyExplanation))
\* the issue is the one made from entry e
MadeFrom(issue, e) ==
    /\ Complete(e) => issue.problematicText = Get(e, KeyProblematicText)
    /\ ~HasKey(e, KeyProblematicText) => issue.problematicText = Unspecified
    /\ IsString(Get(e, KeySuggestion)) => issue.suggestion = Get(e, KeySuggestion)
    /\ IsString(Get(e, KeyExplanation)) => issue.explanation = Get(e, KeyExplanation)
    /\ IsString(Get(e, KeyChecklistItem)) => issue.checklistItem = Get(e, KeyChecklistItem)
\* the positions of the entries of list to keep, in the order of the list
KeptPositions(list) ==
    LET ToKeep(k) == Complete(list[k]) \/ Salvageable(list[k])
    IN SelectSeq([k \in 1..Len(list) |-> k], ToKeep)

IssueShaped(v) ==
    \/ IsArray(v)
    \/ HasKey(v, KeyIssues) /\ IsArray(Get(v, KeyIssues))
    \/ HasKey(v, KeyProblematicText) /\ HasKey(v, KeySuggestion)

\* a synthesis answered with a text that is no JSON once its fences are off
Unparsable(call) ==
    /\ call.status = "fulfilled" /\ call.value # undefined
    /\ ~JsonParse(StripFences(call.value)).ok

----------------------------------------------------------------------------
(* Properties of getBackendErrorMessage and cleanEnv *)

\* the page is on https and the URL starts with http:
SecureOriginViolated == protocol = "https:" /\ StartsWith(API_BASE_URL, HttpColon)
\* a TypeError whose message says, in any case, failed to fetch
TransportFailure(e) ==
    /\ e.name = "TypeError"
    /\ \E k \in 1..(Len(e.message) - Len(FailedToFetch) + 1) :
          \A j \in 1..Len(FailedToFetch) : SameLetter(e.message[k + j - 1], FailedToFetch[j])

\* C18 as stated: the error a backend-mode invocation is rejected with
\* embeds the endpoint URL, whatever the failure was.
C18_EveryErrorEmbedsUrl ==
    (executionMode = "backend" /\ result.status = "rejected") =>
        Includes(result.message, API_BASE_URL)

\* C18, amended: the message embeds the URL for a secure-origin violation,
\* for a TypeError saying 'failed to fetch' and for an error without a
\* message; any other error's own message is returned as it is, and the
\* message of a non-2xx answer holds the status code and no URL.
C18_UrlOnlyWhereSubstituted ==
    (executionMode = "backend" /\ result.status = "rejected") =>
        IF \/ SecureOriginViolated
           \/ TransportFailure(ErrorOfOutcome(attempts[Len(attempts)]))
           \/ ErrorOfOutcome(attempts[Len(attempts)]).message = <<>>
        THEN Includes(result.message, API_BASE_URL)
        ELSE /\ result.message = ErrorOfOutcome(attempts[Len(attempts)]).message
             /\ attempts[Len(attempts)].kind = "http" =>
                   /\ result.message = userFriendlyError(attempts[Len(attempts)].status)
                   /\ ~Includes(result.message, API_BASE_URL)

\* the third attempt answered 503 and no secure-origin violation: the
\* message is the status message, without the URL
C18_Witness ==
    /\ executionMode = "backend" /\ result.status = "rejected"
    /\ ~SecureOriginViolated
    /\ attempts[3] = Outcome("http", 503, <<>>, NoError)
    /\ result.message = userFriendlyError(503)
    /\ ~Includes(result.message, API_BASE_URL)

Quotes == {"\"", "'", "LDQ", "RDQ"}
\* s starts or ends with white space, with a quote
Untrimmed(s) == s # <<>> /\ (s[1] \in WhiteSpace \/ s[Len(s)] \in WhiteSpace)
QuoteEnded(s)   == s # <<>> /\ (s[1] \in Quotes \/ s[Len(s)] \in Quotes)

\* C19: cleanEnv(cleanEnv(s)) = cleanEnv(s) for every s, and a defined
\* result neither starts nor ends with white space or a quote.
C19_CleanEnvIdempotent ==
    pc = "recleaned" =>
        /\ recleaned = cleaned
        /\ cleaned # undefined => ~Untrimmed(cleaned) /\ ~QuoteEnded(cleaned)

\* the three messages of getBackendErrorMessage for the endpoint in use
SecureOriginMessage ==
    <<"[mixed-content warning: HTTPS page cannot reach HTTP backend (">> \o API_BASE_URL
        \o <<") ... remedies]">>
TransportMessage ==
    <<"[network request failed, cannot reach backend (">> \o API_BASE_URL \o <<") ... causes]">>
GenericMessage == <<"[backend request error (">> \o API_BASE_URL \o <<")">>

\* the streams whose errors the catch of callGenerativeAiStream receives:
\* the backend's, gemini's, and a misconfigured frontend call's
OuterCatch ==
    \/ path \in {"backend", "gemini"}
    \/ executionMode = "frontend" /\ Misconfigured

\* C20: getBackendErrorMessage tests the secure origin first, the transport
\* failure second and falls back last: under a secure-origin violation every
\* error of a streaming call, a transport failure, a non-2xx answer and a
\* misconfiguration alike, is reported with the secure-origin message;
\* otherwise a 'failed to fetch' TypeError is never reported with its own
\* message, a misconfiguration is reported with its own, and an error
\* without a message with the generic one.
C20_SecureOriginFirst ==
    \A k \in 1..Len(calls) :
        (calls[k].cb = "onError" /\ OuterCatch) =>
            IF SecureOriginViolated
            THEN calls[k].arg = JStr(SecureOriginMessage)
            ELSE /\ calls[k].arg # JStr(SecureOriginMessage)
                 /\ calls[k].arg # JStr(FailedToFetch)
                 /\ calls[k].arg # JStr(<<>>)
                 /\ (executionMode = "frontend" /\ Misconfigured) =>
                       calls[k].arg =
                           JStr(FrontendConfigError(provider, frontendApiConfig[provider]))

\* a frontend call of a provider without its endpoint, from an https page
\* with an http: backend URL: the secure-origin message
C20_Witness ==
    /\ executionMode = "frontend" /\ provider = "doubao"
    /\ Falsy(frontendApiConfig[provider].endpoint)
    /\ SecureOriginViolated
    /\ calls = <<OnError(SecureOriginMessage)>>

\* the browser blocked the first request of a backend-mode call: the page is
\* on https, the URL starts with http:, and fetch rejected with its TypeError
BlockedAtFirst ==
    /\ executionMode = "backend" /\ SecureOriginViolated
    /\ Len(attempts) >= 1
    /\ attempts[1] = Outcome("reject", 0, <<>>, JsError("TypeError", FailedToFetch))

\* C21: a backend-mode invocation that fails by a secure-origin block is not
\* retried: one attempt is made, no delay is waited, and the call is
\* rejected with the secure-origin message.
C21_SecureOriginNotRetried ==
    BlockedAtFirst =>
        /\ Len(attempts) = 1
        /\ delays = <<>>
        /\ pc = "done"
        /\ result = Rejected(SecureOriginMessage)

----------------------------------------------------------------------------
(* Further properties of the parsers *)

\* C22: the direct parse comes first: for every text that is valid JSON as
\* it stands (null apart), parseJsonResponse returns the value of the direct
\* parse of the trimmed text, and no error.
C22_DirectParseFirst ==
    (pc \in {"parsed", "reparsed"} /\ JsonParse(Trim(rawText)).ok
        /\ JsonParse(Trim(rawText)).v # JNull) =>
        /\ ~jsonResult.threw
        /\ jsonResult.error = undefined
        /\ jsonResult.data = JsonParse(Trim(rawText)).v

\* C23: the sentinel stage applies only when a list is expected: asked for
\* another shape, with no structural stage recovering a value, a text that
\* holds a sentinel phrase gives a parse failure carrying the original text.
C23_SentinelOnlyForLists ==
    (pc \in {"parsed", "reparsed"} /\ typeArgument # "list"
        /\ Recovered(rawText) = JNull /\ SaysNothingFound(rawText)) =>
        jsonResult = Parsed(JNull, NotValidJson, rawText)

\* C24: parseAuditResponse takes issues from a parsed value only if it is a
\* list, an object with a list under 'issues', or one object with both
\* problematicText and suggestion, taken as a list of one; every other
\* parsed value, a number, a boolean, a string or another object, gives an
\* empty issue list with the error of the unexpected format and the
\* original text.
C24_OnlyIssueShapesAccepted ==
    (pc \in {"parsed", "reparsed"} /\ ~jsonResult.threw /\ jsonResult.error = undefined) =>
        IF IssueShaped(jsonResult.data)
        THEN /\ audited.error = undefined /\ audited.rawResponse = undefined
             /\ ~IsArray(jsonResult.data) /\ ~HasKey(jsonResult.data, KeyIssues) =>
                   audited.issues = ValidIssues(<<jsonResult.data>>)
        ELSE audited = AuditParsed(<<>>, UnexpectedFormat, rawText)

\* an AuditIssue as part_000:56-61 declares it
WellTyped(issue) ==
    /\ IsString(issue.problematicText) /\ issue.problematicText.s # <<>>
    /\ IsString(issue.suggestion)
    /\ IsString(issue.checklistItem)
    /\ IsString(issue.explanation)

\* C29: every issue parseAuditResponse returns has its four fields,
\* problematicText, suggestion, checklistItem and explanation, as strings,
\* and a problematicText that is not empty, whatever was parsed, an entry
\* whose problematicText is there but is no string included.
C29_IssuesWellTyped ==
    (pc \in {"parsed", "reparsed"} /\ ~audited.threw) =>
        \A k \in 1..Len(audited.issues) : WellTyped(audited.issues[k])

----------------------------------------------------------------------------
(* Further properties of handleStartRoaming *)

\* the answer of find-related is a 2xx response whose body is a JSON object
\* without an error
Answered(a) ==
    /\ a.kind = "ok" /\ a.body # <<>>
    /\ JsonParse(a.body).ok
    /\ IsObject(JsonParse(a.body).v)
    /\ ~Truthy(Get(JsonParse(a.body).v, KeyError))
RelatedOf(a) == Get(JsonParse(a.body).v, KeyRelated)
\* it names at least one snippet; it names none
WithSnippets(a) == Answered(a) /\ IsArray(RelatedOf(a)) /\ RelatedOf(a).a # <<>>
ZeroSnippets(a) ==
    Answered(a) /\ (~Truthy(RelatedOf(a)) \/ (IsArray(RelatedOf(a)) /\ RelatedOf(a).a = <<>>))

\* what the retrieval answered with a comes to
RetrievalOutcome(a) ==
    IF WithSnippets(a)
    THEN /\ pc' = "synthesizing"
         /\ Len(roamingCalls') = Len(RelatedOf(a).a)
         /\ roamingError' = JNull /\ roamingResult' = JNull
    ELSE /\ pc' = "done" /\ isRoaming' = FALSE
         /\ roamingCalls' = <<>>
         /\ roamingResult' = JNull
         /\ roamingError'.t = "string" /\ roamingError'.s # <<>>
         /\ roamingError' = NothingRelated <=> ZeroSnippets(a)

\* C25: a synthesis call is issued only when the retrieval has answered
\* with at least one snippet: a rejected or non-2xx retrieval, an empty or
\* non-JSON body and a body with an error end roaming with an error, zero
\* snippets end it with the message of its own, and in all these cases no
\* call is made and no result list is published.
C25_NoSynthesisWithoutSnippets ==
    /\ [](roamingCalls # <<>> => Len(sources) = Len(roamingCalls) /\ Len(sources) >= 1)
    /\ []((pc = "done" /\ roamingCalls = <<>>) => roamingResult = JNull /\ roamingError # JNull)
    /\ [][\A a \in RetrievalAnswers : RetrievalSettles(a) => RetrievalOutcome(a)]_vars

\* the retrieval named no snippet: the message of that case, no call
C25_Witness ==
    /\ pc = "done" /\ isRoaming = FALSE
    /\ roamingCalls = <<>> /\ sources = <<>>
    /\ roamingError = NothingRelated /\ roamingResult = JNull

\* the first and the last position of the character c in s; 0 if none
FirstOf(s, c) ==
    IF \E k \in 1..Len(s) : s[k] = c
    THEN CHOOSE k \in 1..Len(s) : s[k] = c /\ \A m \in 1..(k - 1) : s[m] # c
    ELSE 0
LastOf(s, c) ==
    IF \E k \in 1..Len(s) : s[k] = c
    THEN CHOOSE k \in 1..Len(s) : s[k] = c /\ \A m \in (k + 1)..Len(s) : s[m] # c
    ELSE 0
Between(s, open, close) == SubSeq(s, FirstOf(s, open), LastOf(s, close))
HasSpan(s, open, close) == FirstOf(s, open) # 0 /\ LastOf(s, close) > FirstOf(s, open)

\* what the first two stages leave
Stage2(t) == FromMarkdown(tryParse(Trim(t)), MarkdownMatch(Trim(t)))

\* the value stage 3 is to leave for the trimmed text s
SpanValue(s) ==
    IF HasSpan(s, "[", "]") THEN tryParse(Between(s, "[", "]"))
    ELSE IF HasSpan(s, "{", "}") THEN tryParse(Between(s, "{", "}"))
    ELSE JNull

\* C26: when the first two stages recover nothing, stage 3 parses the span
\* from the first '[' to the last ']' whenever the last comes after the
\* first, and the span from the first '{' to the last '}' only otherwise:
\* a bracket span that does not parse fails the parse although the brace
\* span would parse, and prose around an object that holds a list gives
\* the list.
C26_BracketSpanPreferred ==
    (pc \in {"parsed", "reparsed"} /\ Stage2(rawText) = JNull) =>
        /\ SpanValue(Trim(rawText)) # JNull =>
              jsonResult = Parsed(SpanValue(Trim(rawText)), undefined, undefined)
        /\ (SpanValue(Trim(rawText)) = JNull /\ ~SaysNothingFound(rawText)) =>
              jsonResult = Parsed(JNull, NotValidJson, rawText)
        /\ rawText = BetweenProse(TwoLists) =>
              /\ JsonParse(Between(rawText, "{", "}")).ok
              /\ jsonResult.data = JNull
        /\ rawText = BetweenProse(TrailingNested) => jsonResult.data = JArr(<<JNum(1)>>)

\* prose around an object with two lists: the brackets' span is no JSON,
\* the braces' span is, and the parse fails
C26_Witness ==
    /\ pc = "parsed" /\ rawText = BetweenProse(TwoLists)
    /\ Stage2(rawText) = JNull
    /\ ~JsonParse(Between(rawText, "[", "]")).ok
    /\ JsonParse(Between(rawText, "{", "}")).ok
    /\ jsonResult.error = NotValidJson

\* handleStartRoaming is between its entry guard and its end
Roaming == pc \in {"retrieving", "synthesizing"}

\* C28: a run of handleStartRoaming that passed its entry guard shows, while
\* it runs, isRoaming true and neither a result nor an error; once it has
\* ended, by success, by zero snippets, by a failure of retrieval or of
\* synthesis, isRoaming is false and exactly one of roamingResult and
\* roamingError is set, the result only when every synthesis was fulfilled.
\* No state has both set.
C28_RoamingStateExclusive ==
    /\ Roaming => isRoaming /\ roamingResult = JNull /\ roamingError = JNull
    /\ pc = "done" =>
          /\ ~isRoaming
          /\ (roamingResult = JNull) # (roamingError = JNull)
          /\ roamingResult # JNull =>
                /\ roamingPromises # <<>>
                /\ \A k \in 1..Len(roamingPromises) : roamingPromises[k].status = "fulfilled"
    /\ ~(roamingResult # JNull /\ roamingError # JNull)

\* a synthesis was rejected while another was still on its way, which then
\* was fulfilled: the run had ended with the error and stayed so
C28_Witness ==
    /\ pc = "done" /\ ~isRoaming /\ roamingResult = JNull /\ roamingError # JNull
    /\ Len(roamingPromises) = 2
    /\ roamingOrder = <<1, 2>>
    /\ roamingPromises[1].status = "rejected"
    /\ roamingPromises[2].status = "fulfilled"

----------------------------------------------------------------------------
(* Further properties of the streaming paths *)

\* the lines of the whole body that got their terminator
WireLines(body) ==
    SubSeq(SplitLines(Decode(<<>>, body).text), 1, Len(SplitLines(Decode(<<>>, body).text)) - 1)
IsDoneLine(line) == StartsWith(Trim(line), DataPrefix) /\ Trim(SubSeq(line, 7, Len(line))) = DoneSentinel
\* the lines that stand before the first sentinel line
BeforeSentinel(lines) ==
    IF \E k \in 1..Len(lines) : IsDoneLine(lines[k])
    THEN SubSeq(lines, 1, (CHOOSE k \in 1..Len(lines) :
                             IsDoneLine(lines[k]) /\ \A m \in 1..(k - 1) : ~IsDoneLine(lines[m])) - 1)
    ELSE lines
RECURSIVE DeltasOf(_)
\* the deliveries of the event lines, in the order of the lines
DeltasOf(lines) ==
    IF lines = <<>> THEN <<>> ELSE ProcessLine(Head(lines)).calls \o DeltasOf(Tail(lines))
\* the increments of a body in their order on the wire
WireOrder(body) == DeltasOf(BeforeSentinel(WireLines(body)))

\* the event after the sentinel of EventBody
AfterSentinel == OnChunk(JStr(<<"z">>))

\* C27: on every streaming path the calls of onChunk are made in the order
\* in which the increments arrive, and all of them before the terminal
\* callback: the list of calls only grows at its end, nothing is called
\* after onComplete or onError, and the event-line decoder does not deliver
\* the events that follow the sentinel, also when they arrive in the read
\* that holds the sentinel.
C27_ChunksInArrivalOrder ==
    /\ [](\A k \in 1..Len(calls) : Terminal(calls[k]) => k = Len(calls))
    /\ [](path = "openai" => IsPrefix(Chunks, WireOrder(sent)))
    /\ [](path = "gemini" /\ pc \in {"reading", "done"} =>
             Chunks = [k \in 1..(Len(sent) - Len(wire)) |-> OnChunk(sent[k])])
    /\ [](path \in {"backend", "legacy"} => ChunkText(Chunks) = Decode(<<>>, Consumed).text)
    /\ [](\A k \in 1..Len(calls) : calls[k] # AfterSentinel)
    /\ [][/\ IsPrefix(calls, calls')
           /\ (calls # <<>> /\ Terminal(calls[Len(calls)])) => calls' = calls]_vars

\* the whole of EventBody arrived in one read, the event after the sentinel
\* with it: two deliveries in the order of the wire, then onComplete
C27_Witness ==
    /\ path = "openai" /\ sent = EventBody /\ nReads = 1 /\ wire = <<>> /\ pc = "done"
    /\ WireLines(sent)[Len(WireLines(sent))] = EventLine(<<"z">>)
    /\ calls = <<OnChunk(JStr(<<"a">>)), OnChunk(JStr(<<EAcute>>)), OnComplete>>

\* the line of OpenEndedBody that is no JSON, and its last line, which never
\* gets its terminator
BadLine == DataPrefix \o <<"{", "b", "a", "d">>
Unterminated == EventLine(<<"b">>)
OnErrors == SelectSeq(calls, LAMBDA c : c.cb = "onError")

\* C30: in the event-line decoder a body that closes without the sentinel
\* ends with onComplete, and a last line that never got its newline is
\* dropped unparsed, its delta never reaching onChunk; an event line whose
\* payload is no JSON is skipped: the read that holds it invokes no onError
\* and does not end the stream, and the events after it are delivered.
C30_OpenEndedStream ==
    /\ []((path = "openai" /\ Completed /\ wire = <<>> /\ BeforeSentinel(WireLines(sent)) = WireLines(sent)) =>
            /\ Chunks = DeltasOf(WireLines(sent))
            /\ buffer = SplitLines(Decode(<<>>, sent).text)[Len(WireLines(sent)) + 1])
    /\ []((path = "openai" /\ sent = OpenEndedBody) =>
            /\ \A k \in 1..Len(calls) : calls[k] # OnChunk(JStr(<<"b">>))
            /\ Completed => /\ calls = <<OnChunk(JStr(<<"a">>)), OnComplete>>
                            /\ buffer = Unterminated)
    /\ [][(path = "openai" /\ \E n \in 1..Len(wire) : StreamRead(n)) =>
            /\ OnErrors' = OnErrors
            /\ (sent = OpenEndedBody) => pc' = "reading"]_vars

\* OpenEndedBody was read to its close in two reads, the first ending with
\* the line that is no JSON: the event after it was delivered, the last
\* line was left in the buffer, and onComplete ended the stream
C30_Witness ==
    /\ path = "openai" /\ sent = OpenEndedBody /\ Completed /\ nReads = 2 /\ wire = <<>>
    /\ WireLines(sent) = <<BadLine, EventLine(<<"a">>)>>
    /\ ProcessLine(Unterminated).calls = <<OnChunk(JStr(<<"b">>))>>
    /\ ~JsonParse(Trim(SubSeq(BadLine, 7, Len(BadLine)))).ok
    /\ buffer = Unterminated
    /\ calls = <<OnChunk(JStr(<<"a">>)), OnComplete>>

====
